---------------------------- MODULE Spec2Model ----------------------------
(***************************************************************************)
(* Verification model of the bookstore API (jayasuriyatr/bookstore_api).   *)
(*                                                                         *)
(* The document store is the function `books` from ids to book records.    *)
(* A service call that awaits the store more than once (createBook,        *)
(* updateBook with an isbn, updateStock) is split at its awaits: the first *)
(* step reads the store and leaves a continuation in `inflight`, the       *)
(* second step writes.  Any other request may run between the two.         *)
(* Strings are tuples of one-character strings, so that trimming,          *)
(* hyphen stripping and pattern tests are computed, not assumed.           *)
(***************************************************************************)
EXTENDS Integers, Sequences, FiniteSets, Bags, TLC

VARIABLES books, nextId, inflight, last, nreq, users, call, ret

bookVars == <<books, nextId, inflight, last, nreq>>
pureVars == <<call, ret>>
vars == <<books, nextId, inflight, last, nreq, users, call, ret>>

(***************************************************************************)
(* Bounds of the model.                                                    *)
(***************************************************************************)
MaxId == 2
MaxStock == 1
MaxInflight == 2
MaxRequests == 5
MaxRegistered == 2

(***************************************************************************)
(* Characters and strings.                                                 *)
(***************************************************************************)
Digits == {"0", "1", "2", "3", "4", "5", "6", "7", "8", "9"}
Space == {" "}

\* String.prototype.replace(/[-\s]/g, '')
StripIsbn(s) == SelectSeq(s, LAMBDA c : c \notin ({"-"} \cup Space))

RECURSIVE TrimLeft(_)
TrimLeft(s) == IF s # <<>> /\ Head(s) \in Space THEN TrimLeft(Tail(s)) ELSE s

RECURSIVE TrimRight(_)
TrimRight(s) ==
  IF s # <<>> /\ s[Len(s)] \in Space THEN TrimRight(SubSeq(s, 1, Len(s) - 1)) ELSE s

\* String.prototype.trim (the schema's `trim: true` setter, Joi's .trim())
Trim(s) == TrimRight(TrimLeft(s))

AllDigits(s) == \A i \in 1..Len(s) : s[i] \in Digits

\* /^(?:\d{9}X|\d{10})$/
isbn10Pattern(s) ==
  /\ Len(s) = 10
  /\ AllDigits(SubSeq(s, 1, 9))
  /\ s[10] \in Digits \cup {"X"}

\* /^(?:97[89]\d{10})$/
isbn13Pattern(s) ==
  /\ Len(s) = 13
  /\ s[1] = "9" /\ s[2] = "7" /\ s[3] \in {"8", "9"}
  /\ AllDigits(SubSeq(s, 4, 13))

\* BookSchema.isbn.validate.validator
IsbnValidator(v) ==
  LET cleanIsbn == StripIsbn(v)
  IN  isbn10Pattern(cleanIsbn) \/ isbn13Pattern(cleanIsbn)

\* Joi pattern of createBook/updateBook: /^(?:\d{9}X|\d{10}|97[89]\d{10})$/
JoiIsbnPattern(s) == isbn10Pattern(s) \/ isbn13Pattern(s)

(***************************************************************************)
(* Input values.                                                           *)
(***************************************************************************)
IsbnA  == <<"0","3","0","6","4","0","6","1","5","2">>
IsbnAh == <<"0","-","3","0","6","-","4","0","6","1","5","-","2">>
IsbnAs == <<" ","0","3","0","6","4","0","6","1","5","2">>
IsbnB  == <<"9","7","8","0","7","4","3","2","7","3","5","6","5">>
IsbnBh == <<"9","7","8","-","0","-","7","4","-","3","2","7","3","5","6","-","5">>
IsbnBad == <<"1","2","3">>

IsbnInputs == {IsbnA, IsbnAh, IsbnAs, IsbnB, IsbnBh, IsbnBad}

Active == <<"a", "c", "t", "i", "v", "e">>
Inactive == <<"i", "n", "a", "c", "t", "i", "v", "e">>
Discontinued == <<"d", "i", "s", "c", "o", "n", "t", "i", "n", "u", "e", "d">>

Statuses == {Active, Inactive, Discontinued}

Fiction == <<"F", "i", "c", "t", "i", "o", "n">>
NonFiction == <<"N", "o", "n", "-", "F", "i", "c", "t", "i", "o", "n">>
Mystery == <<"M", "y", "s", "t", "e", "r", "y">>
Romance == <<"R", "o", "m", "a", "n", "c", "e">>
ScienceFiction == <<"S", "c", "i", "e", "n", "c", "e", " ", "F", "i", "c", "t", "i", "o", "n">>
Fantasy == <<"F", "a", "n", "t", "a", "s", "y">>
Biography == <<"B", "i", "o", "g", "r", "a", "p", "h", "y">>
History == <<"H", "i", "s", "t", "o", "r", "y">>
SelfHelp == <<"S", "e", "l", "f", "-", "H", "e", "l", "p">>
Business == <<"B", "u", "s", "i", "n", "e", "s", "s">>
Children == <<"C", "h", "i", "l", "d", "r", "e", "n">>
YoungAdult == <<"Y", "o", "u", "n", "g", " ", "A", "d", "u", "l", "t">>
Poetry == <<"P", "o", "e", "t", "r", "y">>
Drama == <<"D", "r", "a", "m", "a">>
Horror == <<"H", "o", "r", "r", "o", "r">>
Thriller == <<"T", "h", "r", "i", "l", "l", "e", "r">>
Comedy == <<"C", "o", "m", "e", "d", "y">>
Adventure == <<"A", "d", "v", "e", "n", "t", "u", "r", "e">>
Other == <<"O", "t", "h", "e", "r">>

Genres == {Fiction, NonFiction, Mystery, Romance, ScienceFiction,
           Fantasy, Biography, History, SelfHelp, Business,
           Children, YoungAdult, Poetry, Drama, Horror,
           Thriller, Comedy, Adventure, Other}

Has(d, f) == f \in DOMAIN d


(***************************************************************************)
(* The Book schema (models/Book.js).                                       *)
(***************************************************************************)
CurrentYear == 2025

RequiredPaths == {"title", "author", "genre", "publishedYear", "isbn"}

\* the paths declared with `trim: true`
StringPaths == {"title", "author", "genre", "isbn", "description"}

\* the validators of a schema whose stock has no minimum
PathsValid_NoStockMin(d) ==
  /\ Has(d, "title") => Len(Trim(d.title)) \in 1..200
  /\ Has(d, "author") => Len(Trim(d.author)) \in 1..100
  /\ Has(d, "genre") => d.genre \in Genres
  /\ Has(d, "publishedYear") => d.publishedYear \in 1000..(CurrentYear + 1)
  /\ Has(d, "isbn") => IsbnValidator(Trim(d.isbn))
  /\ Has(d, "description") => Len(Trim(d.description)) <= 2000
  /\ Has(d, "price") => d.price >= 0
  /\ Has(d, "status") => d.status \in Statuses

\* The validators mongoose runs on the paths present in d (minlength,
\* maxlength, enum, min, max, validate), after the `trim` setters.
PathsValid(d) ==
  /\ Has(d, "title") => Len(Trim(d.title)) \in 1..200
  /\ Has(d, "author") => Len(Trim(d.author)) \in 1..100
  /\ Has(d, "genre") => d.genre \in Genres
  /\ Has(d, "publishedYear") => d.publishedYear \in 1000..(CurrentYear + 1)
  /\ Has(d, "isbn") => IsbnValidator(Trim(d.isbn))
  /\ Has(d, "description") => Len(Trim(d.description)) <= 2000
  /\ Has(d, "price") => d.price >= 0
  /\ Has(d, "stock") => d.stock >= 0
  /\ Has(d, "status") => d.status \in Statuses

\* Document validation on save: required paths, then the path validators.
DocValid(d) == RequiredPaths \subseteq DOMAIN d /\ PathsValid(d)

\* Casting of a payload by the schema: the `trim: true` setters.
CastData(d) ==
  [f \in DOMAIN d |-> IF f \in StringPaths THEN Trim(d[f]) ELSE d[f]]

\* new Book(bookData): setters and defaults.
NewBook(d) ==
  LET c == CastData(d)
  IN  [title |-> c.title, author |-> c.author, genre |-> c.genre,
       publishedYear |-> c.publishedYear, isbn |-> c.isbn,
       description |-> IF Has(c, "description") THEN c.description ELSE <<>>,
       price |-> IF Has(c, "price") THEN c.price ELSE 0,
       stock |-> IF Has(c, "stock") THEN c.stock ELSE 0,
       status |-> IF Has(c, "status") THEN c.status ELSE Active]

\* BookSchema.pre('save'): a modified isbn loses its hyphens and spaces.
PreSave(doc) == [doc EXCEPT !.isbn = StripIsbn(doc.isbn)]

\* The unique index on isbn: another document holds exactly this string.
DupKey(store, isbn, self) ==
  \E i \in DOMAIN store : i # self /\ store[i].isbn = isbn

\* a $set that leaves the status alone
ApplySet_KeepStatus(doc, d) ==
  LET c == CastData(d)
  IN  [f \in DOMAIN doc |->
         IF Has(c, f) /\ f # "status" THEN c[f] ELSE doc[f]]

\* findByIdAndUpdate's $set of the cast payload
ApplySet(doc, d) ==
  LET c == CastData(d)
  IN  [f \in DOMAIN doc |-> IF Has(c, f) THEN c[f] ELSE doc[f]]

\* no document: the _id no stored book has
NoId == 0

(***************************************************************************)
(* Responses.  `last` is the response of the request that completed most   *)
(* recently: the handler, the HTTP status and the step that produced it.   *)
(***************************************************************************)
Resp(op, status, pc) == [op |-> op, status |-> status, pc |-> pc]

Pending == BagToSet(inflight)

\* a request arrives (the model follows at most MaxRequests requests)
Accept == nreq < MaxRequests /\ nreq' = nreq + 1

Await(r) == inflight (+) SetToBag({r})

Resume(r) == inflight (-) SetToBag({r})

\* createBook calls that passed the pre-check and have not saved yet
PendingCreates ==
  BagCardinality([r \in {x \in Pending : x.op = "createBook"} |-> inflight[r]])

(***************************************************************************)
(* BookService (services/bookService.js).                                  *)
(***************************************************************************)

\* createBook up to `await book.save()`: the findOne pre-check.
CreateBookFind(data) ==
  /\ nextId + PendingCreates <= MaxId
  /\ IF \E i \in DOMAIN books : books[i].isbn = StripIsbn(data.isbn)
     THEN /\ last' = Resp("createBook", 409, "find")
          /\ UNCHANGED <<books, nextId, inflight>>
     ELSE /\ BagCardinality(inflight) < MaxInflight
          /\ inflight' = Await([op |-> "createBook", data |-> data])
          /\ UNCHANGED <<books, nextId, last>>
  /\ Accept
  /\ UNCHANGED <<users, call, ret>>

\* a catch block without the duplicate-key case
CreateBookCatch_NoDuplicateCase(err) ==
  CASE err = "ValidationError" -> 422
    [] OTHER -> 500

\* the catch block of createBook: the status reported for a store fault
CreateBookCatch(err) ==
  CASE err = "ValidationError" -> 422
    [] err = "E11000" -> 409
    [] OTHER -> 500

\* createBook from `new Book(bookData)`; `book.save()` to the end: validation,
\* the pre-save hook, the insert under the unique index, the catch block.
CreateBookSave(r) ==
  /\ r \in Pending /\ r.op = "createBook"
  /\ inflight' = Resume(r)
  /\ IF ~DocValid(r.data)
     THEN /\ last' = Resp("createBook", CreateBookCatch("ValidationError"),
                          "save")
          /\ UNCHANGED <<books, nextId>>
     ELSE LET doc == PreSave(NewBook(r.data))
          IN  IF DupKey(books, doc.isbn, NoId)
              THEN /\ last' = Resp("createBook", CreateBookCatch("E11000"),
                                   "save")
                   /\ UNCHANGED <<books, nextId>>
              ELSE /\ books' = (nextId :> doc) @@ books
                   /\ nextId' = nextId + 1
                   /\ last' = Resp("createBook", 201, "save")
  /\ UNCHANGED <<nreq, users, call, ret>>

\* findByIdAndUpdate with `upsert: true`: an absent id is inserted
UpdateBookResult_Upsert(id, data) ==
  IF ~PathsValid(data)
  THEN /\ last' = Resp("updateBook", 422, "update")
       /\ UNCHANGED <<books, nextId>>
  ELSE LET old == IF id \in DOMAIN books THEN books[id]
                  ELSE [title |-> <<>>, author |-> <<>>, genre |-> Other,
                        publishedYear |-> CurrentYear, isbn |-> <<>>,
                        description |-> <<>>, price |-> 0, stock |-> 0,
                        status |-> Active]
           doc == ApplySet(old, data)
       IN  IF DupKey(books, doc.isbn, id)
           THEN /\ last' = Resp("updateBook", 409, "update")
                /\ UNCHANGED <<books, nextId>>
           ELSE /\ books' = (id :> doc) @@ books
                /\ last' = Resp("updateBook", 200, "update")
                /\ UNCHANGED nextId

\* updateBook from findByIdAndUpdate to the end: update validators, the
\* atomic $set under the unique index, the null check, the catch block.
UpdateBookResult(id, data) ==
  IF ~PathsValid(data)
  THEN /\ last' = Resp("updateBook", 422, "update")
       /\ UNCHANGED <<books, nextId>>
  ELSE IF id \notin DOMAIN books
  THEN /\ last' = Resp("updateBook", 404, "update")
       /\ UNCHANGED <<books, nextId>>
  ELSE LET doc == ApplySet(books[id], data)
       IN  IF DupKey(books, doc.isbn, id)
           THEN /\ last' = Resp("updateBook", 409, "update")
                /\ UNCHANGED <<books, nextId>>
           ELSE /\ books' = [books EXCEPT ![id] = doc]
                /\ last' = Resp("updateBook", 200, "update")
                /\ UNCHANGED nextId

\* updateBook up to its first await: with an isbn in the payload that is the
\* findOne duplicate check, without one it is findByIdAndUpdate itself.
UpdateBookFind(id, data) ==
  /\ IF Has(data, "isbn") /\ data.isbn # <<>>
     THEN IF \E i \in DOMAIN books :
               i # id /\ books[i].isbn = StripIsbn(data.isbn)
          THEN /\ last' = Resp("updateBook", 409, "find")
               /\ UNCHANGED <<books, nextId, inflight>>
          ELSE /\ BagCardinality(inflight) < MaxInflight
               /\ inflight' = Await([op |-> "updateBook", id |-> id,
                                     data |-> data])
               /\ UNCHANGED <<books, nextId, last>>
     ELSE /\ UpdateBookResult(id, data)
          /\ UNCHANGED inflight
  /\ Accept
  /\ UNCHANGED <<users, call, ret>>

UpdateBookApply(r) ==
  /\ r \in Pending /\ r.op = "updateBook"
  /\ inflight' = Resume(r)
  /\ UpdateBookResult(r.id, r.data)
  /\ UNCHANGED <<nreq, users, call, ret>>

\* a soft delete that also clears the stock
DeleteBook_ClearStock(id) ==
  /\ IF id \in DOMAIN books
     THEN /\ books' = [books EXCEPT ![id].status = Discontinued,
                                    ![id].stock = 0]
          /\ last' = Resp("deleteBook", 200, "update")
     ELSE /\ last' = Resp("deleteBook", 404, "update")
          /\ UNCHANGED books
  /\ Accept
  /\ UNCHANGED <<nextId, inflight, users, call, ret>>

\* deleteBook: findByIdAndUpdate(bookId, {status: 'discontinued'})
DeleteBook(id) ==
  /\ IF id \in DOMAIN books
     THEN /\ books' = [books EXCEPT ![id].status = Discontinued]
          /\ last' = Resp("deleteBook", 200, "update")
     ELSE /\ last' = Resp("deleteBook", 404, "update")
          /\ UNCHANGED books
  /\ Accept
  /\ UNCHANGED <<nextId, inflight, users, call, ret>>

\* permanentlyDeleteBook: findByIdAndDelete(bookId)
PermanentlyDeleteBook(id) ==
  /\ IF id \in DOMAIN books
     THEN /\ books' = [i \in DOMAIN books \ {id} |-> books[i]]
          /\ last' = Resp("permanentlyDeleteBook", 200, "delete")
     ELSE /\ last' = Resp("permanentlyDeleteBook", 404, "delete")
          /\ UNCHANGED books
  /\ Accept
  /\ UNCHANGED <<nextId, inflight, users, call, ret>>

\* a stock adjustment that floors at zero, as BookSchema.methods.updateStock
NewStock_Floor(stock, quantity) ==
  IF stock + quantity < 0 THEN 0 ELSE stock + quantity

\* newStock of updateStock
NewStock(stock, quantity) == stock + quantity

\* the guard of updateStock: newStock < 0 is refused
Insufficient(newStock) == newStock < 0

\* updateStock up to `await book.save()`: findById, newStock, the guard.
UpdateStockFind(id, quantity) ==
  /\ IF id \notin DOMAIN books
     THEN /\ last' = Resp("updateStock", 404, "find")
          /\ UNCHANGED inflight
     ELSE LET newStock == NewStock(books[id].stock, quantity)
          IN  IF Insufficient(newStock)
              THEN /\ last' = Resp("updateStock", 400, "find")
                   /\ UNCHANGED inflight
              ELSE /\ newStock <= MaxStock
                   /\ BagCardinality(inflight) < MaxInflight
                   /\ inflight' = Await([op |-> "updateStock", id |-> id,
                                         quantity |-> quantity,
                                         stock |-> newStock])
                   /\ UNCHANGED last
  /\ Accept
  /\ UNCHANGED <<books, nextId, users, call, ret>>

\* updateStock from `book.save()` to the end: the validators of the modified
\* path, then updateOne({_id}, {$set: {stock}}); a document removed in the
\* meantime makes save() throw, which the catch block reports as 500.
UpdateStockSave(r) ==
  /\ r \in Pending /\ r.op = "updateStock"
  /\ inflight' = Resume(r)
  /\ IF ~PathsValid([stock |-> r.stock])
     THEN /\ last' = Resp("updateStock", 500, "save")
          /\ UNCHANGED books
     ELSE IF r.id \notin DOMAIN books
     THEN /\ last' = Resp("updateStock", 500, "save")
          /\ UNCHANGED books
     ELSE /\ books' = [books EXCEPT ![r.id].stock = r.stock]
          /\ last' = Resp("updateStock", 200, "save")
  /\ UNCHANGED <<nextId, nreq, users, call, ret>>

(***************************************************************************)
(* Authentication and authorization middlewares (middlewares/auth.js).     *)
(* A token is NoToken (no Authorization header) or a record naming the     *)
(* user it was issued to, whether its signature verifies and whether it    *)
(* has expired.                                                            *)
(***************************************************************************)
NoUser == "nobody"

Token(uid, sig, expired) == [uid |-> uid, sig |-> sig, expired |-> expired]

NoToken == Token(NoUser, "none", FALSE)

\* JWTUtils.verifyToken: "ok", or the name of the error jwt.verify throws.
\* jwt.verify checks the signature, then the expiry, then audience and
\* issuer; sig is "good" for a token this server signed, "issuer" or
\* "audience" for one signed with the secret for another issuer or audience.
verifyToken(token) ==
  IF token.sig \notin {"good", "issuer", "audience"} THEN "JsonWebTokenError"
  ELSE IF token.expired THEN "TokenExpiredError"
  ELSE IF token.sig # "good" THEN "JsonWebTokenError"
  ELSE "ok"

\* the catch (jwtError) block of authenticate
JwtErrorMessage(name) ==
  CASE name = "TokenExpiredError" -> "Token has expired"
    [] name = "JsonWebTokenError" -> "Token is invalid"
    [] OTHER -> "Token verification failed"

\* authenticate without the isActive check
authenticate_NoActiveCheck(req) ==
  IF req.token = NoToken
  THEN [status |-> 401, req |-> req, message |-> "Access token is required"]
  ELSE IF verifyToken(req.token) # "ok"
  THEN [status |-> 401, req |-> req,
        message |-> JwtErrorMessage(verifyToken(req.token))]
  ELSE IF req.token.uid \notin DOMAIN users
  THEN [status |-> 401, req |-> req,
        message |-> "Token is invalid - user not found"]
  ELSE [status |-> 0, req |-> [req EXCEPT !.user = req.token.uid],
        message |-> "next"]

\* authenticate refusing the tokens of a user who has logged in since
authenticate_RevokedByLogin(req) ==
  IF req.token = NoToken
  THEN [status |-> 401, req |-> req, message |-> "Access token is required"]
  ELSE IF verifyToken(req.token) # "ok"
  THEN [status |-> 401, req |-> req,
        message |-> JwtErrorMessage(verifyToken(req.token))]
  ELSE IF req.token.uid \notin DOMAIN users
  THEN [status |-> 401, req |-> req,
        message |-> "Token is invalid - user not found"]
  ELSE IF ~users[req.token.uid].isActive
  THEN [status |-> 401, req |-> req, message |-> "Account is deactivated"]
  ELSE IF users[req.token.uid].lastLogin > 0
  THEN [status |-> 401, req |-> req, message |-> "Token is invalid"]
  ELSE [status |-> 0, req |-> [req EXCEPT !.user = req.token.uid],
        message |-> "next"]

\* authenticate: status 0 lets the request through with req.user set
authenticate(req) ==
  IF req.token = NoToken
  THEN [status |-> 401, req |-> req, message |-> "Access token is required"]
  ELSE IF verifyToken(req.token) # "ok"
  THEN [status |-> 401, req |-> req,
        message |-> JwtErrorMessage(verifyToken(req.token))]
  ELSE IF req.token.uid \notin DOMAIN users
  THEN [status |-> 401, req |-> req,
        message |-> "Token is invalid - user not found"]
  ELSE IF ~users[req.token.uid].isActive
  THEN [status |-> 401, req |-> req, message |-> "Account is deactivated"]
  ELSE [status |-> 0, req |-> [req EXCEPT !.user = req.token.uid],
        message |-> "next"]

\* authorize without the comparison of the role
authorize_AnyRole(roles, req) ==
  IF req.user = NoUser
  THEN [status |-> 401, req |-> req, message |-> "Authentication required"]
  ELSE [status |-> 0, req |-> req, message |-> "next"]

\* authorize(...roles)
authorize(roles, req) ==
  IF req.user = NoUser
  THEN [status |-> 401, req |-> req, message |-> "Authentication required"]
  ELSE IF users[req.user].role \notin roles
  THEN [status |-> 403, req |-> req, message |-> "Insufficient permissions"]
  ELSE [status |-> 0, req |-> req, message |-> "next"]

(***************************************************************************)
(* Request validation (middlewares/validation.js).                         *)
(***************************************************************************)
BookKeys == {"title", "author", "genre", "publishedYear", "isbn",
             "description", "price", "stock", "status"}

\* the rules shared by bookSchemas.createBook and bookSchemas.updateBook,
\* applied to the keys present
JoiBookRules(b) ==
  /\ Has(b, "title") => Len(Trim(b.title)) \in 1..200
  /\ Has(b, "author") => Len(Trim(b.author)) \in 1..100
  /\ Has(b, "genre") => b.genre \in Genres
  /\ Has(b, "publishedYear") => b.publishedYear \in 1000..(CurrentYear + 1)
  /\ Has(b, "isbn") => JoiIsbnPattern(Trim(b.isbn))
  /\ Has(b, "description") => Len(Trim(b.description)) <= 2000
  /\ Has(b, "price") => b.price >= 0
  /\ Has(b, "stock") => b.stock >= 0
  /\ Has(b, "status") => b.status \in Statuses

\* the keys declared with .trim()
JoiTrimKeys == {"title", "author", "isbn", "description"}

\* stripUnknown, then .trim() on those keys
JoiBookValue(b) ==
  [f \in DOMAIN b \cap BookKeys |->
     IF f \in JoiTrimKeys THEN Trim(b[f]) ELSE b[f]]

\* validate(bookSchemas.createBook, 'body')
validateCreateBook(req) ==
  IF RequiredPaths \subseteq DOMAIN req.body /\ JoiBookRules(req.body)
  THEN LET v == JoiBookValue(req.body)
           d == [price |-> 0, stock |-> 0, status |-> Active]
       IN  [status |-> 0, req |-> [req EXCEPT !.body = v @@ d]]
  ELSE [status |-> 422, req |-> req]

\* validate(bookSchemas.updateBook, 'body')
validateUpdateBook(req) ==
  IF DOMAIN req.body \cap BookKeys # {} /\ JoiBookRules(req.body)
  THEN [status |-> 0, req |-> [req EXCEPT !.body = JoiBookValue(req.body)]]
  ELSE [status |-> 422, req |-> req]

\* validate(bookSchemas.bookId, 'params'): ids of the model are well formed
validateBookId(req) ==
  IF req.id \in Nat THEN [status |-> 0, req |-> req]
  ELSE [status |-> 422, req |-> req]

\* the inline schema of PATCH /:id/stock: quantity is a required integer
validateQuantity(req) ==
  IF Has(req.body, "quantity") /\ req.body.quantity \in Int
  THEN [status |-> 0, req |-> [req EXCEPT !.body =
                                 [quantity |-> req.body.quantity]]]
  ELSE [status |-> 422, req |-> req]

(***************************************************************************)
(* Routes (routes/bookRoutes.js): the middleware chain in front of each    *)
(* write handler.  The rate limiters never touch the store and are passed. *)
(***************************************************************************)
Middleware(m, req) ==
  CASE m = "strictRateLimiter" -> [status |-> 0, req |-> req]
    [] m = "authenticate" -> authenticate(req)
    [] m = "authorizeAdmin" -> authorize({"admin"}, req)
    [] m = "validateBookId" -> validateBookId(req)
    [] m = "validateCreateBook" -> validateCreateBook(req)
    [] m = "validateUpdateBook" -> validateUpdateBook(req)
    [] m = "validateQuantity" -> validateQuantity(req)

RECURSIVE RunChain(_, _)
RunChain(chain, req) ==
  IF chain = <<>> THEN [status |-> 0, req |-> req]
  ELSE LET out == Middleware(Head(chain), req)
       IN  IF out.status # 0 THEN out ELSE RunChain(Tail(chain), out.req)

PostBooksChain == <<"strictRateLimiter", "validateCreateBook">>

PutBookChain == <<"strictRateLimiter", "validateBookId", "validateUpdateBook">>

PatchBookChain == <<"strictRateLimiter", "validateBookId", "validateUpdateBook">>

PatchStockChain == <<"strictRateLimiter", "validateBookId", "validateQuantity">>

DeleteBookChain == <<"strictRateLimiter", "validateBookId">>

DeletePermanentChain == <<"strictRateLimiter", "validateBookId">>

Request(token, id, body) ==
  [token |-> token, user |-> NoUser, id |-> id, body |-> body]

Refused(op, out) ==
  /\ last' = Resp(op, out.status, "chain")
  /\ Accept
  /\ UNCHANGED <<books, nextId, inflight, users, call, ret>>

\* POST /api/books
PostBooks(token, body) ==
  \E out \in {RunChain(PostBooksChain, Request(token, NoId, body))} :
    IF out.status # 0 THEN Refused("createBook", out)
    ELSE CreateBookFind(out.req.body)

\* PUT /api/books/:id
PutBook(token, id, body) ==
  \E out \in {RunChain(PutBookChain, Request(token, id, body))} :
    IF out.status # 0 THEN Refused("updateBook", out)
    ELSE UpdateBookFind(out.req.id, out.req.body)

\* PATCH /api/books/:id
PatchBook(token, id, body) ==
  \E out \in {RunChain(PatchBookChain, Request(token, id, body))} :
    IF out.status # 0 THEN Refused("updateBook", out)
    ELSE UpdateBookFind(out.req.id, out.req.body)

\* PATCH /api/books/:id/stock
PatchStock(token, id, body) ==
  \E out \in {RunChain(PatchStockChain, Request(token, id, body))} :
    IF out.status # 0 THEN Refused("updateStock", out)
    ELSE UpdateStockFind(out.req.id, out.req.body.quantity)

\* DELETE /api/books/:id
DeleteBookRoute(token, id) ==
  \E out \in {RunChain(DeleteBookChain, Request(token, id, <<>>))} :
    IF out.status # 0 THEN Refused("deleteBook", out)
    ELSE DeleteBook(out.req.id)

\* DELETE /api/books/:id/permanent
DeletePermanentRoute(token, id) ==
  \E out \in {RunChain(DeletePermanentChain, Request(token, id, <<>>))} :
    IF out.status # 0 THEN Refused("permanentlyDeleteBook", out)
    ELSE PermanentlyDeleteBook(out.req.id)

(***************************************************************************)
(* JavaScript values of query parameters: a string (as Express parses the  *)
(* query string), a number (as Joi converts it), NaN, or undefined.        *)
(* Numbers are integral.                                                   *)
(***************************************************************************)
Str(s) == [t |-> "string", s |-> s, n |-> 0]
Num(n) == [t |-> "number", s |-> <<>>, n |-> n]
NaN == [t |-> "NaN", s |-> <<>>, n |-> 0]
Undefined == [t |-> "undefined", s |-> <<>>, n |-> 0]

\* ToBoolean: undefined, NaN, 0 and '' are falsy
Truthy(x) ==
  CASE x.t = "string" -> x.s # <<>>
    [] x.t = "number" -> x.n # 0
    [] OTHER -> FALSE

\* query[key]
Get(query, key) == IF key \in DOMAIN query THEN query[key] ELSE Undefined

DigitSeq == <<"0", "1", "2", "3", "4", "5", "6", "7", "8", "9">>

DigitValue(c) == (CHOOSE i \in 1..10 : DigitSeq[i] = c) - 1

\* the longest prefix of s made of digits
RECURSIVE DigitPrefix(_)
DigitPrefix(s) ==
  IF s # <<>> /\ Head(s) \in Digits THEN <<Head(s)>> \o DigitPrefix(Tail(s))
  ELSE <<>>

RECURSIVE DigitsToNat(_)
DigitsToNat(s) ==
  IF s = <<>> THEN 0
  ELSE 10 * DigitsToNat(SubSeq(s, 1, Len(s) - 1)) + DigitValue(s[Len(s)])

\* the number read from the start of a string: leading white space, an
\* optional sign, then digits; NaN when no digit is found
ParseNumber(s) ==
  LET t == TrimLeft(s)
      neg == t # <<>> /\ Head(t) = "-"
      u == IF t # <<>> /\ Head(t) \in {"-", "+"} THEN Tail(t) ELSE t
      ds == DigitPrefix(u)
  IN  IF ds = <<>> THEN NaN
      ELSE Num(IF neg THEN 0 - DigitsToNat(ds) ELSE DigitsToNat(ds))

\* parseInt(x)
parseInt(x) ==
  CASE x.t = "string" -> ParseNumber(x.s)
    [] x.t = "number" -> x
    [] OTHER -> NaN

\* parseFloat(x), on numbers and strings without a fractional part
parseFloat(x) ==
  CASE x.t = "string" -> ParseNumber(x.s)
    [] x.t = "number" -> x
    [] OTHER -> NaN

(***************************************************************************)
(* Query construction (utils/helpers.js).                                  *)
(***************************************************************************)
\* { ...filters[field], [op]: value }
Spread(filters, field, op, value) ==
  LET old == IF field \in DOMAIN filters /\ filters[field].t = "range"
             THEN filters[field].ops ELSE <<>>
  IN  [t |-> "range",
       ops |-> [o \in (DOMAIN old) \cup {op} |->
                  IF o = op THEN value ELSE old[o]]]

Put(filters, field, value) ==
  [f \in (DOMAIN filters) \cup {field} |->
     IF f = field THEN value ELSE filters[f]]

\* the conversion of the branch of a range-capable field
ParseField(field, x) ==
  IF field = "publishedYear" THEN parseInt(x) ELSE parseFloat(x)

\* the body of parseFilters' forEach for a range-capable field
RangeFilter(filters, query, field) ==
  LET gte == Get(query, field \o "_gte")
      lte == Get(query, field \o "_lte")
      f1 == IF Truthy(gte)
            THEN Put(filters, field, Spread(filters, field, "$gte", ParseField(field, gte)))
            ELSE filters
      f2 == IF Truthy(lte)
            THEN Put(f1, field, Spread(f1, field, "$lte", ParseField(field, lte)))
            ELSE f1
  IN  IF Truthy(Get(query, field)) /\ ~Truthy(gte) /\ ~Truthy(lte)
      THEN Put(f2, field, ParseField(field, Get(query, field)))
      ELSE f2

\* the body of parseFilters' forEach
FilterField(filters, query, field) ==
  IF Truthy(Get(query, field))
  THEN IF field = "publishedYear"
       THEN RangeFilter(filters, query, field)
       ELSE IF field = "price"
       THEN RangeFilter(filters, query, field)
       ELSE Put(filters, field, query[field])
  ELSE filters

RECURSIVE ForEachFilter(_, _, _)
ForEachFilter(filters, query, fields) ==
  IF fields = <<>> THEN filters
  ELSE ForEachFilter(FilterField(filters, query, Head(fields)), query,
                     Tail(fields))

\* parseFilters(query, allowedFilters)
parseFilters(query, allowedFilters) == ForEachFilter(<<>>, query, allowedFilters)

\* allowedFilters of getAllBooks
AllowedFilters == <<"genre", "author", "status", "publishedYear", "price">>

\* PAGINATION of config/config.js
DEFAULT_PAGE == 1
DEFAULT_LIMIT == 10
MAX_LIMIT == 100

Max(a, b) == IF a >= b THEN a ELSE b
Min(a, b) == IF a <= b THEN a ELSE b

\* x || d, for a numeric x
OrDefault(x, d) == IF Truthy(x) THEN x.n ELSE d

\* Math.ceil(a / b), b > 0
CeilDiv(a, b) == (a + b - 1) \div b

\* calculatePagination with the number of pages rounded down
calculatePagination_FloorPages(page, limit, totalItems) ==
  LET currentPage == Max(1, OrDefault(parseInt(page), DEFAULT_PAGE))
      itemsPerPage == Min(Max(1, OrDefault(parseInt(limit), DEFAULT_LIMIT)),
                          MAX_LIMIT)
      totalPages == totalItems \div itemsPerPage
  IN  [currentPage |-> currentPage,
       itemsPerPage |-> itemsPerPage,
       totalItems |-> totalItems,
       totalPages |-> totalPages,
       skip |-> (currentPage - 1) * itemsPerPage,
       hasNextPage |-> currentPage < totalPages,
       hasPreviousPage |-> currentPage > 1]

\* calculatePagination with the page clamped to the last page
calculatePagination_ClampPage(page, limit, totalItems) ==
  LET itemsPerPage == Min(Max(1, OrDefault(parseInt(limit), DEFAULT_LIMIT)),
                          MAX_LIMIT)
      totalPages == CeilDiv(totalItems, itemsPerPage)
      currentPage == Min(Max(1, OrDefault(parseInt(page), DEFAULT_PAGE)),
                         Max(1, totalPages))
  IN  [currentPage |-> currentPage,
       itemsPerPage |-> itemsPerPage,
       totalItems |-> totalItems,
       totalPages |-> totalPages,
       skip |-> (currentPage - 1) * itemsPerPage,
       hasNextPage |-> currentPage < totalPages,
       hasPreviousPage |-> currentPage > 1]

\* calculatePagination(page, limit, totalItems)
calculatePagination(page, limit, totalItems) ==
  LET currentPage == Max(1, OrDefault(parseInt(page), DEFAULT_PAGE))
      itemsPerPage == Min(Max(1, OrDefault(parseInt(limit), DEFAULT_LIMIT)),
                          MAX_LIMIT)
      totalPages == CeilDiv(totalItems, itemsPerPage)
  IN  [currentPage |-> currentPage,
       itemsPerPage |-> itemsPerPage,
       totalItems |-> totalItems,
       totalPages |-> totalPages,
       skip |-> (currentPage - 1) * itemsPerPage,
       hasNextPage |-> currentPage < totalPages,
       hasPreviousPage |-> currentPage > 1]

\* the names of the sortable fields, as strings of characters
TitleKey == <<"t", "i", "t", "l", "e">>
AuthorKey == <<"a", "u", "t", "h", "o", "r">>
GenreKey == <<"g", "e", "n", "r", "e">>
PublishedYearKey ==
  <<"p", "u", "b", "l", "i", "s", "h", "e", "d", "Y", "e", "a", "r">>
PriceKey == <<"p", "r", "i", "c", "e">>
CreatedAtKey == <<"c", "r", "e", "a", "t", "e", "d", "A", "t">>
UpdatedAtKey == <<"u", "p", "d", "a", "t", "e", "d", "A", "t">>

\* sortString.split(',')
RECURSIVE Split(_)
Split(s) ==
  IF \E i \in 1..Len(s) : s[i] = ","
  THEN LET i == CHOOSE k \in 1..Len(s) :
                  s[k] = "," /\ \A j \in 1..(k - 1) : s[j] # ","
       IN  <<SubSeq(s, 1, i - 1)>> \o Split(SubSeq(s, i + 1, Len(s)))
  ELSE <<s>>

\* a property name that is an array index: a canonical decimal numeral
IsArrayIndex(key) ==
  /\ key # <<>>
  /\ AllDigits(key)
  /\ Len(key) > 1 => Head(key) # "0"

\* sortObj[sortField] = sortOrder, the properties kept in the order the
\* object enumerates them: a key already present keeps its place, array
\* indices come first in ascending order, other keys in order of creation
SetKey(sortObj, sortField, sortOrder) ==
  LET entry == [field |-> sortField, order |-> sortOrder]
  IN  IF \E i \in 1..Len(sortObj) : sortObj[i].field = sortField
      THEN [i \in 1..Len(sortObj) |->
              IF sortObj[i].field = sortField THEN entry ELSE sortObj[i]]
      ELSE IF IsArrayIndex(sortField)
      THEN LET k == Cardinality({i \in 1..Len(sortObj) :
                      /\ IsArrayIndex(sortObj[i].field)
                      /\ DigitsToNat(sortObj[i].field) < DigitsToNat(sortField)})
           IN  SubSeq(sortObj, 1, k) \o <<entry>>
                 \o SubSeq(sortObj, k + 1, Len(sortObj))
      ELSE Append(sortObj, entry)

Includes(list, x) == \E i \in 1..Len(list) : list[i] = x

\* the body of parseSort's forEach
SortField(sortObj, field, allowedFields) ==
  LET t == Trim(field)
      desc == t # <<>> /\ Head(t) = "-"
      sortField == IF desc THEN Tail(t) ELSE t
      sortOrder == IF desc THEN -1 ELSE 1
  IN  IF allowedFields = <<>> \/ Includes(allowedFields, sortField)
      THEN SetKey(sortObj, sortField, sortOrder)
      ELSE sortObj

RECURSIVE ForEachSort(_, _, _)
ForEachSort(sortObj, sortFields, allowedFields) ==
  IF sortFields = <<>> THEN sortObj
  ELSE ForEachSort(SortField(sortObj, Head(sortFields), allowedFields),
                   Tail(sortFields), allowedFields)

DefaultSort == <<[field |-> CreatedAtKey, order |-> -1]>>

\* parseSort(sortString, allowedFields): the sort keys in the order of the
\* object's properties
parseSort(sortString, allowedFields) ==
  IF ~Truthy(sortString) THEN DefaultSort
  ELSE LET sortObj == ForEachSort(<<>>, Split(sortString.s), allowedFields)
       IN  IF Len(sortObj) > 0 THEN sortObj ELSE DefaultSort

SearchPaths == {"title", "author", "description", "isbn"}

\* buildSearchQuery(searchTerm)
buildSearchQuery(searchTerm) ==
  IF ~Truthy(searchTerm) THEN <<>>
  ELSE [k \in {"$or"} |-> [t |-> "or", s |-> searchTerm.s]]

\* { ...a, ...b }
Merge(a, b) ==
  [k \in (DOMAIN a) \cup (DOMAIN b) |-> IF k \in DOMAIN b THEN b[k] ELSE a[k]]

(***************************************************************************)
(* The queries of the store (MongoDB find, countDocuments, sort, skip,     *)
(* limit), over the books of the collection.                               *)
(***************************************************************************)
UpperCase ==
  <<"A", "B", "C", "D", "E", "F", "G", "H", "I", "J", "K", "L", "M", "N",
    "O", "P", "Q", "R", "S", "T", "U", "V", "W", "X", "Y", "Z">>

LowerCase ==
  <<"a", "b", "c", "d", "e", "f", "g", "h", "i", "j", "k", "l", "m", "n",
    "o", "p", "q", "r", "s", "t", "u", "v", "w", "x", "y", "z">>

\* the characters of the model in the order of their code points
CharOrder == <<" ", "-">> \o DigitSeq \o UpperCase \o LowerCase

CharCode(c) == CHOOSE i \in 1..Len(CharOrder) : CharOrder[i] = c

ToLower(c) ==
  IF \E i \in 1..26 : UpperCase[i] = c
  THEN LowerCase[CHOOSE i \in 1..26 : UpperCase[i] = c]
  ELSE c

LowerOf(s) == [i \in 1..Len(s) |-> ToLower(s[i])]

\* s contains t
Contains(s, t) ==
  \E i \in 0..(Len(s) - Len(t)) : SubSeq(s, i + 1, i + Len(t)) = t

\* { $regex: term, $options: 'i' } for a term without metacharacters
RegexMatch(value, term) == Contains(LowerOf(value), LowerOf(term))

\* the binary comparison of two strings: -1, 0 or 1
RECURSIVE StrCompare(_, _)
StrCompare(a, b) ==
  IF a = <<>> /\ b = <<>> THEN 0
  ELSE IF a = <<>> THEN -1
  ELSE IF b = <<>> THEN 1
  ELSE IF CharCode(Head(a)) < CharCode(Head(b)) THEN -1
  ELSE IF CharCode(Head(a)) > CharCode(Head(b)) THEN 1
  ELSE StrCompare(Tail(a), Tail(b))

NumCompare(a, b) == IF a < b THEN -1 ELSE IF a > b THEN 1 ELSE 0

\* the comparison of two books on one sort key; createdAt follows the order
\* of creation; a key the model does not store (updatedAt, an unknown
\* field) orders nothing
KeyCompare(store, i, j, key) ==
  CASE key = TitleKey -> StrCompare(store[i].title, store[j].title)
    [] key = AuthorKey -> StrCompare(store[i].author, store[j].author)
    [] key = GenreKey -> StrCompare(store[i].genre, store[j].genre)
    [] key = PublishedYearKey ->
         NumCompare(store[i].publishedYear, store[j].publishedYear)
    [] key = PriceKey -> NumCompare(store[i].price, store[j].price)
    [] key = CreatedAtKey -> NumCompare(i, j)
    [] OTHER -> 0

\* the comparison of two books under .sort(sortObj)
RECURSIVE SortCompare(_, _, _, _)
SortCompare(store, i, j, sortObj) ==
  IF sortObj = <<>> THEN 0
  ELSE LET c == KeyCompare(store, i, j, Head(sortObj).field)
       IN  IF c # 0 THEN c * Head(sortObj).order
           ELSE SortCompare(store, i, j, Tail(sortObj))

\* one condition of a query on one document
Condition(doc, path, cond) ==
  CASE cond.t = "string" ->
         path \in StringPaths \cup {"status"} /\ doc[path] = cond.s
    [] cond.t = "number" ->
         path \in {"publishedYear", "price", "stock"} /\ doc[path] = cond.n
    [] cond.t = "range" ->
         /\ "$gte" \in DOMAIN cond.ops => doc[path] >= cond.ops["$gte"].n
         /\ "$lte" \in DOMAIN cond.ops => doc[path] <= cond.ops["$lte"].n
    [] cond.t = "regex" -> RegexMatch(doc[path], cond.s)
    [] cond.t = "or" -> \E f \in SearchPaths : RegexMatch(doc[f], cond.s)
    [] OTHER -> FALSE

\* the query cannot be cast to the schema: a NaN for a Number path
CastError(query) ==
  \E k \in DOMAIN query :
    \/ query[k].t = "NaN"
    \/ /\ query[k].t = "range"
       /\ \E o \in DOMAIN query[k].ops : query[k].ops[o].t = "NaN"

\* the _ids of the documents a query selects
Matching(store, query) ==
  {i \in DOMAIN store :
     \A k \in DOMAIN query : Condition(store[i], k, query[k])}

\* Book.countDocuments(query)
countDocuments(store, query) == Cardinality(Matching(store, query))

\* the orders in which .sort(sortObj) may deliver a set of documents
Sorted(store, ids, sortObj) ==
  {p \in [1..Cardinality(ids) -> ids] :
     /\ \A i, j \in 1..Cardinality(ids) : i # j => p[i] # p[j]
     /\ \A i \in 1..(Cardinality(ids) - 1) :
          SortCompare(store, p[i], p[i + 1], sortObj) <= 0}

\* .lean(): the plain documents, with their _id
Lean(store, p) == [k \in 1..Len(p) |-> [id |-> p[k], doc |-> store[p[k]]]]

\* Book.find(query).sort(sortObj).skip(skip).limit(limit).lean(): the
\* pages the store may deliver
find(store, query, sortObj, skip, limit) ==
  {Lean(store, SubSeq(p, skip + 1, Min(Len(p), skip + limit))) :
     p \in Sorted(store, Matching(store, query), sortObj)}

(***************************************************************************)
(* The list operations of BookService.  Each one counts, awaits, then      *)
(* finds: other requests may complete between the two reads.               *)
(***************************************************************************)
\* const { page, limit, sort, search, ...filterParams } = queryParams
FilterParams(queryParams) ==
  [k \in (DOMAIN queryParams) \ {"page", "limit", "sort", "search"} |->
     queryParams[k]]

\* no default status
DefaultStatus_None(filters) == filters

\* if (!filters.status) filters.status = 'active'
DefaultStatus(filters) ==
  IF ~Truthy(Get(filters, "status")) THEN Put(filters, "status", Str(Active))
  ELSE filters

\* the query of getAllBooks
AllBooksQuery(queryParams) ==
  Merge(DefaultStatus(parseFilters(FilterParams(queryParams), AllowedFilters)),
        buildSearchQuery(Get(queryParams, "search")))

\* the query of getBooksByGenre
GenreQuery(genre, queryParams) ==
  Merge([genre |-> Str(genre), status |-> Str(Active)],
        buildSearchQuery(Get(queryParams, "search")))

\* the query of getBooksByAuthor
AuthorQuery(author, queryParams) ==
  Merge([author |-> [t |-> "regex", s |-> author], status |-> Str(Active)],
        buildSearchQuery(Get(queryParams, "search")))

AllBooksSortFields ==
  <<TitleKey, AuthorKey, GenreKey, PublishedYearKey, PriceKey, CreatedAtKey,
    UpdatedAtKey>>

GenreSortFields ==
  <<TitleKey, AuthorKey, PublishedYearKey, PriceKey, CreatedAtKey>>

AuthorSortFields ==
  <<TitleKey, GenreKey, PublishedYearKey, PriceKey, CreatedAtKey>>

\* a list operation up to the end of `await Book.countDocuments(query)`
ListCount(op, arg, queryParams, query) ==
  /\ IF CastError(query)
     THEN /\ last' = Resp(op, 500, "count")
          /\ UNCHANGED inflight
     ELSE /\ BagCardinality(inflight) < MaxInflight
          /\ inflight' = Await([op |-> op, arg |-> arg,
                                params |-> queryParams, query |-> query,
                                total |-> countDocuments(books, query)])
          /\ UNCHANGED last
  /\ Accept
  /\ UNCHANGED <<books, nextId, users, call, ret>>

\* a list operation from calculatePagination to its return
ListFind(r, allowedSortFields) ==
  /\ r \in Pending
  /\ inflight' = Resume(r)
  /\ LET pagination == calculatePagination(Get(r.params, "page"),
                                           Get(r.params, "limit"), r.total)
         sortObj == parseSort(Get(r.params, "sort"), allowedSortFields)
     IN  \E page \in find(books, r.query, sortObj, pagination.skip,
                          pagination.itemsPerPage) :
           ret' = [fn |-> r.op,
                   value |-> [books |-> page, pagination |-> pagination,
                              filters |-> r.query, sort |-> sortObj]]
  /\ call' = [fn |-> r.op, arg |-> r.arg, query |-> r.params]
  /\ last' = Resp(r.op, 200, "find")
  /\ UNCHANGED <<books, nextId, nreq, users>>

GetAllBooksCount(queryParams) ==
  ListCount("getAllBooks", <<>>, queryParams, AllBooksQuery(queryParams))

GetAllBooksFind(r) ==
  r \in Pending /\ r.op = "getAllBooks" /\ ListFind(r, AllBooksSortFields)

GetBooksByGenreCount(genre, queryParams) ==
  ListCount("getBooksByGenre", genre, queryParams,
            GenreQuery(genre, queryParams))

GetBooksByGenreFind(r) ==
  r \in Pending /\ r.op = "getBooksByGenre" /\ ListFind(r, GenreSortFields)

GetBooksByAuthorCount(author, queryParams) ==
  ListCount("getBooksByAuthor", author, queryParams,
            AuthorQuery(author, queryParams))

GetBooksByAuthorFind(r) ==
  r \in Pending /\ r.op = "getBooksByAuthor" /\ ListFind(r, AuthorSortFields)

(***************************************************************************)
(* The read routes GET /api/books and GET /api/books/search: query         *)
(* validation (bookSchemas.getBooks), then the controller.                 *)
(***************************************************************************)
GetBooksKeys ==
  {"page", "limit", "sort", "search", "genre", "author", "publishedYear",
   "publishedYear_gte", "publishedYear_lte", "price_gte", "price_lte",
   "status"}

GetBooksNumberKeys ==
  {"page", "limit", "publishedYear", "publishedYear_gte", "publishedYear_lte",
   "price_gte", "price_lte"}

\* Joi.number() with convert: a number, or a string that is a number
JoiIsNumber(x) ==
  \/ x.t = "number"
  \/ x.t = "string" /\ x.s # <<>> /\ AllDigits(x.s)

JoiNumberValue(x) == IF x.t = "number" THEN x.n ELSE DigitsToNat(x.s)

\* Joi.string(): a string that is not empty
JoiIsString(x) == x.t = "string" /\ x.s # <<>>

\* the rule of one key of bookSchemas.getBooks
JoiGetBooksRule(k, x) ==
  CASE k = "page" -> JoiIsNumber(x) /\ JoiNumberValue(x) >= 1
    [] k = "limit" ->
         JoiIsNumber(x) /\ JoiNumberValue(x) >= 1 /\ JoiNumberValue(x) <= 100
    [] k \in {"publishedYear", "publishedYear_gte", "publishedYear_lte"} ->
         /\ JoiIsNumber(x)
         /\ JoiNumberValue(x) >= 1000
         /\ JoiNumberValue(x) <= CurrentYear + 1
    [] k \in {"price_gte", "price_lte"} ->
         JoiIsNumber(x) /\ JoiNumberValue(x) >= 0
    [] k = "genre" -> JoiIsString(x) /\ x.s \in Genres
    [] k = "status" -> JoiIsString(x) /\ x.s \in Statuses
    [] k \in {"search", "author"} -> JoiIsString(x) /\ Trim(x.s) # <<>>
    [] OTHER -> JoiIsString(x)

\* the validated value of one key: numbers converted, .trim() applied
JoiGetBooksValue(k, x) ==
  IF k \in GetBooksNumberKeys THEN Num(JoiNumberValue(x))
  ELSE IF k \in {"search", "author"} THEN Str(Trim(x.s))
  ELSE x

\* validate(bookSchemas.getBooks, 'query'): unknown keys are stripped and
\* req.query is replaced by the validated value
validateGetBooks(req) ==
  LET known == (DOMAIN req.query) \cap GetBooksKeys
  IN  IF \A k \in known : JoiGetBooksRule(k, req.query[k])
      THEN [status |-> 0,
            req |-> [req EXCEPT !.query =
                       [k \in known |-> JoiGetBooksValue(k, req.query[k])]]]
      ELSE [status |-> 422, req |-> req]

\* standardRateLimiter never touches the store and is passed
standardRateLimiter(req) == [status |-> 0, req |-> req]

\* the middlewares of router.get('/') and router.get('/search')
RunReadChain(req) ==
  LET out == standardRateLimiter(req)
  IN  IF out.status # 0 THEN out ELSE validateGetBooks(out.req)

QueryRequest(query) ==
  [token |-> NoToken, user |-> NoUser, id |-> NoId, body |-> <<>>,
   query |-> query]

\* const searchQuery = { ...req.query, search: req.query.q }; delete q
SearchQuery(query) ==
  LET with == Put(query, "search", Get(query, "q"))
  IN  [k \in (DOMAIN with) \ {"q"} |-> with[k]]

\* BookController.searchBooks
searchBooks(req) ==
  IF ~Truthy(Get(req.query, "q"))
  THEN /\ last' = Resp("searchBooks", 400, "handler")
       /\ Accept
       /\ UNCHANGED <<books, nextId, inflight, users, call, ret>>
  ELSE GetAllBooksCount(SearchQuery(req.query))

(***************************************************************************)
(* The users (models/User.js).  A password is held as written (plain) or   *)
(* as its bcrypt hash; lastLogin is the number of the login request, or    *)
(* NoDate.                                                                 *)
(***************************************************************************)
Roles == {"admin", "user"}

\* lastLogin: null
NoDate == 0

\* bcrypt.hash(password, salt)
Hash(p) == [alg |-> "bcrypt", text |-> p]

\* a password as the request wrote it
Plain(p) == [alg |-> "plain", text |-> p]

\* UserSchema.methods.comparePassword: bcrypt.compare(candidate, this.password)
comparePassword(user, candidatePassword) ==
  user.password.alg = "bcrypt" /\ user.password.text = candidatePassword

\* the setters of UserSchema: trim on username, trim and lowercase on email
UserCast(d) ==
  [f \in DOMAIN d |->
     IF f = "username" THEN Trim(d[f])
     ELSE IF f = "email" THEN LowerOf(Trim(d[f]))
     ELSE d[f]]

\* the `match` of email: /^[^\s@]+@[^\s@]+\.[^\s@]+$/
EmailMatch(e) ==
  /\ \A i \in 1..Len(e) : e[i] \notin Space
  /\ Cardinality({i \in 1..Len(e) : e[i] = "@"}) = 1
  /\ \E a \in 2..Len(e) :
       /\ e[a] = "@"
       /\ \E d \in (a + 2)..(Len(e) - 1) : e[d] = "."

\* the validators of the paths present in d; a password is validated as
\* written, before the pre-save hook hashes it
UserPathsValid(d) ==
  /\ Has(d, "username") => Len(d.username) \in 3..50
  /\ Has(d, "email") => EmailMatch(d.email)
  /\ Has(d, "password") =>
       (d.password.alg = "plain" => Len(d.password.text) >= 6)
  /\ Has(d, "role") => d.role \in Roles

\* UserSchema.pre('save'): a modified password is hashed
UserPreSave(doc) ==
  IF doc.password.alg = "plain"
  THEN [doc EXCEPT !.password = Hash(doc.password.text)]
  ELSE doc

\* new User({username, email, password, role}): setters and defaults
NewUser(d) ==
  LET c == UserCast(d)
  IN  [username |-> c.username, email |-> c.email,
       password |-> Plain(c.password), role |-> c.role,
       isActive |-> TRUE, lastLogin |-> NoDate]

\* the unique index on username alone
UserDupKey_UsernameOnly(store, doc, self) ==
  IF \E i \in DOMAIN store : i # self /\ store[i].username = doc.username
  THEN "username"
  ELSE "none"

\* the unique indexes on username and on email: "none" or the path of the
\* index another document collides on
UserDupKey(store, doc, self) ==
  IF \E i \in DOMAIN store : i # self /\ store[i].username = doc.username
  THEN "username"
  ELSE IF \E i \in DOMAIN store : i # self /\ store[i].email = doc.email
  THEN "email"
  ELSE "none"

\* toAuthJSON with every path of the document
toAuthJSON_WithPassword(id, user) ==
  [id |-> id, username |-> user.username, email |-> user.email,
   role |-> user.role, isActive |-> user.isActive,
   password |-> user.password]

\* UserSchema.methods.toAuthJSON
toAuthJSON(id, user) ==
  [id |-> id, username |-> user.username, email |-> user.email,
   role |-> user.role, isActive |-> user.isActive]

\* a document read with .select('-password'), serialised by toJSON
toJSON(id, user) ==
  [id |-> id, username |-> user.username, email |-> user.email,
   role |-> user.role, isActive |-> user.isActive,
   lastLogin |-> user.lastLogin]

\* jwt.sign(payload, secret, {expiresIn, issuer, audience})
SignToken(payload, kind) ==
  [uid |-> payload.id, sig |-> "good", expired |-> FALSE,
   username |-> payload.username, email |-> payload.email,
   role |-> payload.role, kind |-> kind]

\* JWTUtils.generateTokenPair(user)
generateTokenPair(id, user) ==
  LET payload == [id |-> id, username |-> user.username,
                  email |-> user.email, role |-> user.role]
  IN  [accessToken |-> SignToken(payload, "access"),
       refreshToken |-> SignToken(payload, "refresh"),
       expiresIn |-> "JWT.expiresIn", tokenType |-> "Bearer"]

\* errorHandler: the status of an error that is not an ApiError
ErrorStatus(err) ==
  CASE err = "ValidationError" -> 422
    [] err = "CastError" -> 400
    [] err = "E11000" -> 409
    [] err = "JsonWebTokenError" -> 401
    [] err = "TokenExpiredError" -> 401
    [] OTHER -> 500

\* the response of an auth handler
AuthResponse(op, status, message, data) ==
  [fn |-> op, status |-> status, message |-> message, data |-> data]

NoData == [none |-> TRUE]

(***************************************************************************)
(* AuthController.  register and updateProfile are split at the await      *)
(* between their duplicate check and their write; the other handlers read  *)
(* and write the store at one instant.                                     *)
(***************************************************************************)
\* the ids of registered users, in the order they are assigned
RegisterIds == <<"u-1", "u-2", "u-3", "u-4">>

Registered ==
  Cardinality({k \in 1..Len(RegisterIds) : RegisterIds[k] \in DOMAIN users})

PendingRegisters ==
  BagCardinality([r \in {x \in Pending : x.op = "register"} |-> inflight[r]])

\* the request of an auth handler is recorded with its response
AuthDone(op, req, status, message, data, pc) ==
  /\ ret' = AuthResponse(op, status, message, data)
  /\ call' = [fn |-> op, token |-> req.token, body |-> req.body]
  /\ last' = Resp(op, status, pc)

\* the role user whatever is requested
RegisterRole_AlwaysUser(body) == "user"

\* role: role === 'admin' ? 'admin' : 'user'
RegisterRole(body) ==
  IF Has(body, "role") /\ body.role = "admin" THEN "admin" ELSE "user"

\* register up to `await User.create`: findOne({$or: [{email}, {username}]})
\* and the two comparisons with the document found
RegisterFind(body) ==
  \E q \in {UserCast([email |-> body.email, username |-> body.username])} :
  \E found \in {{i \in DOMAIN users :
                   users[i].email = q.email \/ users[i].username = q.username}} :
    LET req == Request(NoToken, NoId, body)
    IN  /\ \E existingUser \in (IF found = {} THEN {NoUser} ELSE found) :
             IF existingUser # NoUser /\ users[existingUser].email = body.email
             THEN /\ AuthDone("register", req, 409, "Email already registered",
                              NoData, "find")
                  /\ UNCHANGED inflight
             ELSE IF /\ existingUser # NoUser
                     /\ users[existingUser].username = body.username
             THEN /\ AuthDone("register", req, 409, "Username already taken",
                              NoData, "find")
                  /\ UNCHANGED inflight
             ELSE /\ BagCardinality(inflight) < MaxInflight
                  /\ Registered + PendingRegisters < MaxRegistered
                  /\ inflight' = Await([op |-> "register", body |-> body])
                  /\ UNCHANGED <<last, call, ret>>
        /\ Accept
        /\ UNCHANGED <<books, nextId, users>>

\* register from User.create to the end: validation, the pre-save hook, the
\* insert under the unique indexes, the token pair; a fault goes to
\* errorHandler
RegisterCreate(r) ==
  /\ r \in Pending /\ r.op = "register"
  /\ inflight' = Resume(r)
  /\ \E new \in {NewUser([username |-> r.body.username,
                          email |-> r.body.email,
                          password |-> r.body.password,
                          role |-> RegisterRole(r.body)])} :
     \E user \in {UserPreSave(new)} :
       LET req == Request(NoToken, NoId, r.body)
           id == RegisterIds[Registered + 1]
       IN  IF ~UserPathsValid(new)
           THEN /\ AuthDone("register", req, ErrorStatus("ValidationError"),
                            "ValidationError", NoData, "create")
                /\ UNCHANGED users
           ELSE IF UserDupKey(users, user, NoUser) # "none"
           THEN /\ AuthDone("register", req, ErrorStatus("E11000"),
                            "already exists", NoData, "create")
                /\ UNCHANGED users
           ELSE /\ users' = (id :> user) @@ users
                /\ AuthDone("register", req, 201,
                            "User registered successfully",
                            [user |-> toAuthJSON(id, user),
                             tokens |-> generateTokenPair(id, user)], "create")
  /\ UNCHANGED <<books, nextId, nreq>>

\* login without the isActive check
login_NoActiveCheck(store, now, body) ==
  LET email == UserCast([email |-> body.email]).email
      found == {i \in DOMAIN store : store[i].email = email}
      id == CHOOSE i \in found : TRUE
      fail(message) == [status |-> 401, message |-> message, data |-> NoData,
                        users |-> store]
  IN  IF found = {} THEN fail("Invalid email or password")
      ELSE IF ~comparePassword(store[id], body.password)
      THEN fail("Invalid email or password")
      ELSE LET user == [store[id] EXCEPT !.lastLogin = now]
           IN  [status |-> 200, message |-> "Login successful",
                data |-> [user |-> toAuthJSON(id, user),
                          tokens |-> generateTokenPair(id, user)],
                users |-> [store EXCEPT ![id] = user]]

\* login: the outcome for a store and a body; now is the date of the request
login(store, now, body) ==
  LET email == UserCast([email |-> body.email]).email
      found == {i \in DOMAIN store : store[i].email = email}
      id == CHOOSE i \in found : TRUE
      fail(message) == [status |-> 401, message |-> message, data |-> NoData,
                        users |-> store]
  IN  IF found = {} THEN fail("Invalid email or password")
      ELSE IF ~store[id].isActive THEN fail("Account is deactivated")
      ELSE IF ~comparePassword(store[id], body.password)
      THEN fail("Invalid email or password")
      ELSE LET user == [store[id] EXCEPT !.lastLogin = now]
           IN  [status |-> 200, message |-> "Login successful",
                data |-> [user |-> toAuthJSON(id, user),
                          tokens |-> generateTokenPair(id, user)],
                users |-> [store EXCEPT ![id] = user]]

\* AuthController.login
Login(body) ==
  /\ \E out \in {login(users, nreq + 1, body)} :
       /\ users' = out.users
       /\ AuthDone("login", Request(NoToken, NoId, body), out.status,
                   out.message, out.data, "handler")
  /\ Accept
  /\ UNCHANGED <<books, nextId, inflight>>

\* the middlewares in front of the handlers of an authenticated user and
\* of the admin listing
AuthenticatedChain == <<"authenticate">>

AdminChain == <<"authenticate", "authorizeAdmin">>

\* a request refused by authenticate or authorize
AuthRefused(op, req, out) ==
  /\ AuthDone(op, req, out.status, out.message, NoData, "chain")
  /\ Accept
  /\ UNCHANGED <<books, nextId, inflight, users>>

\* AuthController.getProfile
GetProfile(token) ==
  LET req == Request(token, NoId, <<>>)
  IN  \E out \in {RunChain(AuthenticatedChain, req)} :
        IF out.status # 0 THEN AuthRefused("getProfile", req, out)
        ELSE /\ AuthDone("getProfile", req, 200,
                         "Profile retrieved successfully",
                         toAuthJSON(out.req.user, users[out.req.user]),
                         "handler")
             /\ Accept
             /\ UNCHANGED <<books, nextId, inflight, users>>

\* AuthController.getAllUsers, without filter: the documents by their id
GetAllUsers(token) ==
  LET req == Request(token, NoId, <<>>)
  IN  \E out \in {RunChain(AdminChain, req)} :
        IF out.status # 0 THEN AuthRefused("getAllUsers", req, out)
        ELSE /\ AuthDone("getAllUsers", req, 200,
                         "Users retrieved successfully",
                         [i \in DOMAIN users |-> toJSON(i, users[i])],
                         "handler")
             /\ Accept
             /\ UNCHANGED <<books, nextId, inflight, users>>

\* changePassword without the comparison of currentPassword
changePassword_NoCompare(store, userId, body) ==
  LET user == [store[userId] EXCEPT !.password = Plain(body.newPassword)]
  IN  IF ~UserPathsValid([password |-> user.password])
      THEN [status |-> ErrorStatus("ValidationError"),
            message |-> "ValidationError", users |-> store]
      ELSE [status |-> 200, message |-> "Password changed successfully",
            users |-> [store EXCEPT ![userId] = UserPreSave(user)]]

\* changePassword: the outcome for a store, a user and a body
changePassword(store, userId, body) ==
  IF ~comparePassword(store[userId], body.currentPassword)
  THEN [status |-> 401, message |-> "Current password is incorrect",
        users |-> store]
  ELSE LET user == [store[userId] EXCEPT
                      !.password = Plain(body.newPassword)]
       IN  IF ~UserPathsValid([password |-> user.password])
           THEN [status |-> ErrorStatus("ValidationError"),
                 message |-> "ValidationError", users |-> store]
           ELSE [status |-> 200, message |-> "Password changed successfully",
                 users |-> [store EXCEPT ![userId] = UserPreSave(user)]]

\* AuthController.changePassword
ChangePassword(token, body) ==
  LET req == Request(token, NoId, body)
  IN  \E out \in {RunChain(AuthenticatedChain, req)} :
        IF out.status # 0 THEN AuthRefused("changePassword", req, out)
        ELSE \E res \in {changePassword(users, out.req.user, body)} :
               /\ users' = res.users
               /\ AuthDone("changePassword", req, res.status, res.message,
                           NoData, "handler")
               /\ Accept
               /\ UNCHANGED <<books, nextId, inflight>>

\* refreshToken without the isActive check
refreshToken_NoActiveCheck(store, body) ==
  LET token == body.refreshToken
  IN  IF token = NoToken
      THEN [status |-> 400, message |-> "Refresh token is required",
            data |-> NoData]
      ELSE IF verifyToken(token) # "ok" \/ token.uid \notin DOMAIN store
      THEN [status |-> 401, message |-> "Invalid refresh token",
            data |-> NoData]
      ELSE [status |-> 200, message |-> "Tokens refreshed successfully",
            data |-> generateTokenPair(token.uid, store[token.uid])]

\* refreshToken: the outcome for a store and a body
refreshToken(store, body) ==
  LET token == body.refreshToken
  IN  IF token = NoToken
      THEN [status |-> 400, message |-> "Refresh token is required",
            data |-> NoData]
      ELSE IF verifyToken(token) # "ok"
      THEN [status |-> 401, message |-> "Invalid refresh token",
            data |-> NoData]
      ELSE IF token.uid \notin DOMAIN store \/ ~store[token.uid].isActive
      THEN [status |-> 401, message |-> "Invalid refresh token",
            data |-> NoData]
      ELSE [status |-> 200, message |-> "Tokens refreshed successfully",
            data |-> generateTokenPair(token.uid, store[token.uid])]

\* AuthController.refreshToken
RefreshToken(body) ==
  /\ \E out \in {refreshToken(users, body)} :
       AuthDone("refreshToken", Request(NoToken, NoId, body), out.status,
                out.message, out.data, "handler")
  /\ Accept
  /\ UNCHANGED <<books, nextId, inflight, users>>

\* updateProfile up to `await User.findByIdAndUpdate`: the duplicate check
UpdateProfileFind(token, body) ==
  LET req == Request(token, NoId, body)
  IN  \E out \in {RunChain(AuthenticatedChain, req)} :
        IF out.status # 0 THEN AuthRefused("updateProfile", req, out)
        ELSE
          \E q \in {UserCast(body)} :
          \E found \in {{i \in DOMAIN users :
                           /\ i # out.req.user
                           /\ \/ Has(q, "username")
                                   /\ users[i].username = q.username
                              \/ Has(q, "email")
                                   /\ users[i].email = q.email}} :
            /\ \E existingUser \in (IF found = {} THEN {NoUser} ELSE found) :
                 IF /\ existingUser # NoUser /\ Has(body, "username")
                    /\ users[existingUser].username = body.username
                 THEN /\ AuthDone("updateProfile", req, 409,
                                  "Username already taken", NoData, "find")
                      /\ UNCHANGED inflight
                 ELSE IF /\ existingUser # NoUser /\ Has(body, "email")
                         /\ users[existingUser].email = body.email
                 THEN /\ AuthDone("updateProfile", req, 409,
                                  "Email already registered", NoData, "find")
                      /\ UNCHANGED inflight
                 ELSE /\ BagCardinality(inflight) < MaxInflight
                      /\ inflight' = Await([op |-> "updateProfile",
                                            uid |-> out.req.user,
                                            token |-> token,
                                            body |-> body])
                      /\ UNCHANGED <<last, call, ret>>
            /\ Accept
            /\ UNCHANGED <<books, nextId, users>>

\* updateProfile from findByIdAndUpdate(userId, {username, email}, {new,
\* runValidators}) to the end: update validators, the $set under the unique
\* indexes, toAuthJSON of the result (null when the user is gone)
UpdateProfileApply(r) ==
  /\ r \in Pending /\ r.op = "updateProfile"
  /\ inflight' = Resume(r)
  /\ \E update \in {UserCast([f \in (DOMAIN r.body) \cap {"username", "email"}
                                |-> r.body[f]])} :
       LET req == Request(r.token, NoId, r.body)
       IN  IF ~UserPathsValid(update)
           THEN /\ AuthDone("updateProfile", req,
                            ErrorStatus("ValidationError"), "ValidationError",
                            NoData, "update")
                /\ UNCHANGED users
           ELSE IF r.uid \notin DOMAIN users
           THEN /\ AuthDone("updateProfile", req, ErrorStatus("TypeError"),
                            "TypeError", NoData, "update")
                /\ UNCHANGED users
           ELSE \E user \in {[f \in DOMAIN users[r.uid] |->
                                IF Has(update, f) THEN update[f]
                                ELSE users[r.uid][f]]} :
                  IF UserDupKey(users, user, r.uid) # "none"
                  THEN /\ AuthDone("updateProfile", req, ErrorStatus("E11000"),
                                   "already exists", NoData, "update")
                       /\ UNCHANGED users
                  ELSE /\ users' = [users EXCEPT ![r.uid] = user]
                       /\ AuthDone("updateProfile", req, 200,
                                   "Profile updated successfully",
                                   toAuthJSON(r.uid, user), "update")
  /\ UNCHANGED <<books, nextId, nreq>>

(***************************************************************************)
(* Changes made to the users collection outside the API: no handler        *)
(* deactivates, removes or demotes a user.                                 *)
(***************************************************************************)
StoreDeactivate(uid) ==
  /\ uid \in DOMAIN users /\ users[uid].isActive
  /\ users' = [users EXCEPT ![uid].isActive = FALSE]
  /\ UNCHANGED <<books, nextId, inflight, last, nreq, call, ret>>

StoreRemove(uid) ==
  /\ uid \in DOMAIN users
  /\ users' = [i \in (DOMAIN users) \ {uid} |-> users[i]]
  /\ UNCHANGED <<books, nextId, inflight, last, nreq, call, ret>>

StoreSetRole(uid, role) ==
  /\ uid \in DOMAIN users /\ users[uid].role # role
  /\ users' = [users EXCEPT ![uid].role = role]
  /\ UNCHANGED <<books, nextId, inflight, last, nreq, call, ret>>

\* GET /api/books
GetBooks(query) ==
  \E out \in {RunReadChain(QueryRequest(query))} :
    IF out.status # 0 THEN Refused("getAllBooks", out)
    ELSE GetAllBooksCount(out.req.query)

\* GET /api/books/search
GetSearch(query) ==
  \E out \in {RunReadChain(QueryRequest(query))} :
    IF out.status # 0 THEN Refused("searchBooks", out)
    ELSE searchBooks(out.req)

(***************************************************************************)
(* Inputs of the model.                                                    *)
(***************************************************************************)
Ann == <<"A", "n", "n">>
Bob == <<"B", "o", "b">>
Dune == <<"D", "u", "n", "e">>
Odes == <<"O", "d", "e", "s">>

WorkA(isbn) ==
  [title |-> Dune, author |-> Ann, genre |-> Fiction,
   publishedYear |-> 1965, isbn |-> isbn]

WorkB(isbn) ==
  [title |-> Odes, author |-> Bob, genre |-> Poetry,
   publishedYear |-> 2001, isbn |-> isbn]

CreateInputs ==
  { WorkA(IsbnA), WorkA(IsbnAh), WorkA(IsbnBad),
    [stock |-> 1, price |-> 1] @@ WorkB(IsbnB),
    [status |-> Inactive] @@ WorkB(IsbnBh),
    [stock |-> -1] @@ WorkB(IsbnB) }

UpdateInputs ==
  { [isbn |-> IsbnA], [isbn |-> IsbnAh], [isbn |-> IsbnAs], [isbn |-> IsbnB],
    [stock |-> MaxStock], [stock |-> -1], [price |-> -1],
    [status |-> Active], [status |-> Inactive] }

Ids == 1..MaxId

Quantities == (-MaxStock)..MaxStock

AdminId == "u-admin"
UserId == "u-user"
RetiredId == "u-retired"

\* usernames, emails and passwords
AdminName == <<"a", "d", "m">>
UserName == <<"a", "n", "n">>
RetiredName == <<"r", "e", "x">>
NewName == <<"b", "o", "b">>

Email(c) == <<c, "@", "x", ".", "y">>

Secret == <<"s", "e", "c", "r", "e", "t">>
Passwd == <<"p", "a", "s", "s", "w", "d">>

SeedUser(name, email, role, isActive) ==
  [username |-> name, email |-> email, password |-> Hash(Secret),
   role |-> role, isActive |-> isActive, lastLogin |-> NoDate]

InitUsers ==
  (AdminId :> SeedUser(AdminName, Email("a"), "admin", TRUE)) @@
  (UserId :> SeedUser(UserName, Email("u"), "user", TRUE)) @@
  (RetiredId :> SeedUser(RetiredName, Email("r"), "admin", FALSE))

AdminToken == Token(AdminId, "good", FALSE)

Tokens ==
  { NoToken, AdminToken, Token(UserId, "good", FALSE),
    Token(AdminId, "bad", FALSE) }

HttpCreateBodies == { WorkA(IsbnAs), WorkB(IsbnBh) }

HttpUpdateBodies == { [isbn |-> IsbnAs], [status |-> Inactive] }

HttpQuantities == {-1, 1}

\* the books the list operations are exercised on
ListCreateInputs ==
  { WorkA(IsbnA), [stock |-> 1, price |-> 1] @@ WorkB(IsbnB) }

ListUpdateInputs == { [status |-> Active] }

\* the query parameters of the list operations
ListQueries ==
  { [page |-> Str(<<"2">>), limit |-> Str(<<"1">>)],
    [sort |-> Str(<<"-">> \o PriceKey)],
    [sort |-> Str(TitleKey \o <<",">> \o UpdatedAtKey)],
    [search |-> Str(<<"o">>)],
    [price_gte |-> Str(<<"1">>)],
    [publishedYear |-> Str(<<"x">>)],
    [status |-> Str(Discontinued)] }

GenreArgs == {Poetry}

AuthorArgs == {<<"b", "o">>}

GenreQueries == {[page |-> Str(<<"1">>)], [search |-> Str(<<"o">>)]}

\* the query strings of GET /api/books/search and GET /api/books
SearchQueries ==
  { [q |-> Str(<<"o">>)],
    [q |-> Str(<<"d">>), page |-> Str(<<"1">>)],
    [q |-> Str(<<"o">>), status |-> Str(Discontinued)],
    [search |-> Str(<<"o">>)],
    [page |-> Str(<<"0">>), q |-> Str(<<"o">>)] }

GetBooksQueries ==
  { [search |-> Str(<<"o">>)],
    [price_gte |-> Str(<<"1">>)],
    [limit |-> Str(<<"1">>), sort |-> Str(TitleKey)] }

\* the bodies of POST /api/auth/login: the emails of the three seed users
\* and one nobody holds, each with the seed password and with another one
LoginEmails == {Email("a"), Email("u"), Email("r"), Email("z")}

LoginInputs ==
  { [email |-> e, password |-> p] : e \in LoginEmails, p \in {Secret, Passwd} }

UserToken == Token(UserId, "good", FALSE)

\* the bodies and tokens of POST /api/auth/change-password
PasswordInputs ==
  { [currentPassword |-> c, newPassword |-> n] :
      c \in {Secret, Passwd}, n \in {Secret, Passwd} }

PasswordTokens == {NoToken, UserToken, Token(RetiredId, "good", FALSE)}

\* the tokens a client presents: none, tokens of the seed users that verify,
\* an expired one, one with a forged signature, one signed for another
\* issuer, and an expired one signed for another audience
TokenInputs ==
  { NoToken, AdminToken, UserToken, Token(RetiredId, "good", FALSE),
    Token(UserId, "good", TRUE), Token(AdminId, "bad", FALSE),
    Token(AdminId, "issuer", FALSE), Token(UserId, "audience", TRUE) }

\* the bodies of the logins that hand out tokens
TokenLogins ==
  { [email |-> Email("a"), password |-> Secret],
    [email |-> Email("u"), password |-> Secret] }

\* the bodies of POST /api/auth/register: a new user without role, the same
\* as admin, the same email in upper case under another username and role,
\* and users whose username or email a seed user holds
RegisterInputs ==
  { [username |-> NewName, email |-> Email("b"), password |-> Secret],
    [username |-> NewName, email |-> Email("b"), password |-> Secret,
     role |-> "admin"],
    [username |-> <<"B", "o", "b">>, email |-> Email("B"),
     password |-> Passwd, role |-> "manager"],
    [username |-> AdminName, email |-> Email("c"), password |-> Secret,
     role |-> "user"],
    [username |-> <<"c", "a", "l">>, email |-> Email("u"),
     password |-> Secret] }

\* the bodies of PUT /api/auth/profile
ProfileInputs ==
  { [username |-> NewName],
    [email |-> Email("b")],
    [email |-> Email("B")],
    [username |-> AdminName, email |-> Email("c")] }

ProfileTokens == {NoToken, UserToken}

\* the requests the handlers of AuthController are exercised with together
AuthRegisters ==
  { [username |-> NewName, email |-> Email("b"), password |-> Passwd,
     role |-> "admin"] }

AuthLogins == { [email |-> Email("a"), password |-> Secret] }

AuthProfiles == { [email |-> Email("B")] }

AuthPasswords == { [currentPassword |-> Secret, newPassword |-> Passwd] }

AuthTokens == {UserToken}

(***************************************************************************)
(* The specification.                                                      *)
(***************************************************************************)
NoCall == [fn |-> "none"]

Init ==
  /\ books = <<>>
  /\ nextId = 1
  /\ inflight = EmptyBag
  /\ last = Resp("none", 0, "none")
  /\ nreq = 0
  /\ users = InitUsers
  /\ call = NoCall
  /\ ret = NoCall

FilterKeys == {"publishedYear", "publishedYear_gte", "publishedYear_lte",
               "price", "price_gte", "price_lte", "status"}

FilterValues(k) ==
  IF k = "status" THEN {Str(Inactive)}
  ELSE IF k \in {"publishedYear", "publishedYear_gte", "publishedYear_lte"}
  THEN {Str(<<"1", "9", "9", "0">>), Num(2001)}
  ELSE {Str(<<"1", "0">>), Num(0)}

\* the queries over the keys K: each key absent or with one of its values
RECURSIVE QueriesOver(_)
QueriesOver(K) ==
  IF K = {} THEN {<<>>}
  ELSE LET k == CHOOSE x \in K : TRUE
           rest == QueriesOver(K \ {k})
       IN  rest \cup {Put(q, k, v) : q \in rest, v \in FilterValues(k)}

\* the queries handed to parseFilters
FilterQueries == QueriesOver(FilterKeys)

\* parseFilters applied to a query
CallParseFilters(q) ==
  /\ call = NoCall
  /\ call' = [fn |-> "parseFilters", query |-> q]
  /\ ret' = [fn |-> "parseFilters", value |-> parseFilters(q, AllowedFilters)]
  /\ UNCHANGED <<books, nextId, inflight, last, nreq, users>>

\* the pure helpers, applied to inputs drawn from bounded sets
PureNext ==
  \/ \E q \in FilterQueries : CallParseFilters(q)

PureSpec == Init /\ [][PureNext]_vars

\* the page parameters handed to calculatePagination: absent, strings as a
\* query string carries them, numbers as validation converts them
PageValues ==
  {Undefined, Str(<<"0">>), Str(<<"-", "3">>), Str(<<"x">>), Str(<<"1">>),
   Str(<<"2">>), Str(<<"7">>), Num(0), Num(-2), Num(1), Num(3), Num(40)}

LimitValues ==
  {Undefined, Str(<<"0">>), Str(<<"-", "5">>), Str(<<"a", "b", "c">>),
   Str(<<"1">>), Str(<<"3">>), Str(<<"1", "0", "0">>), Str(<<"1", "0", "1">>),
   Num(0), Num(-1), Num(2), Num(250)}

TotalValues == {0, 1, 6, 101, 250}

\* calculatePagination applied to a page, a limit and a number of items
CallCalculatePagination(page, limit, totalItems) ==
  /\ call = NoCall
  /\ call' = [fn |-> "calculatePagination", page |-> page, limit |-> limit,
              totalItems |-> totalItems]
  /\ ret' = [fn |-> "calculatePagination",
             value |-> calculatePagination(page, limit, totalItems)]
  /\ UNCHANGED <<books, nextId, inflight, last, nreq, users>>

PageNext ==
  \E page \in PageValues, limit \in LimitValues, totalItems \in TotalValues :
    CallCalculatePagination(page, limit, totalItems)

PageSpec == Init /\ [][PageNext]_vars

\* the tokens a caller writes in a sort string
SortTokens ==
  {TitleKey, <<"-">> \o TitleKey, <<" ">> \o AuthorKey \o <<" ">>,
   <<"-">> \o PriceKey, <<"-">> \o CreatedAtKey, <<"i", "d">>, <<"2">>,
   <<"1", "0">>, <<>>}

MaxTokens == 3

\* tokens.join(',')
RECURSIVE Join(_)
Join(tokens) ==
  IF Len(tokens) = 0 THEN <<>>
  ELSE IF Len(tokens) = 1 THEN tokens[1]
  ELSE tokens[1] \o <<",">> \o Join(Tail(tokens))

SortStrings ==
  {Undefined} \cup
  {Str(Join(ts)) : ts \in UNION {[1..n -> SortTokens] : n \in 1..MaxTokens}}

SortAllowLists ==
  {<<>>, <<TitleKey, AuthorKey>>,
   <<TitleKey, AuthorKey, GenreKey, PublishedYearKey, PriceKey, CreatedAtKey,
     UpdatedAtKey>>}

\* parseSort applied to a sort string and an allow-list
CallParseSort(sortString, allowedFields) ==
  /\ call = NoCall
  /\ call' = [fn |-> "parseSort", sortString |-> sortString,
              allowedFields |-> allowedFields]
  /\ ret' = [fn |-> "parseSort", value |-> parseSort(sortString, allowedFields)]
  /\ UNCHANGED <<books, nextId, inflight, last, nreq, users>>

SortNext ==
  \E sortString \in SortStrings, allowedFields \in SortAllowLists :
    CallParseSort(sortString, allowedFields)

SortSpec == Init /\ [][SortNext]_vars

\* BookService with its list operations
ListNext ==
  \/ \E data \in ListCreateInputs : CreateBookFind(data)
  \/ \E r \in Pending : CreateBookSave(r)
  \/ \E id \in Ids, data \in ListUpdateInputs : UpdateBookFind(id, data)
  \/ \E id \in Ids : DeleteBook(id)
  \/ \E q \in ListQueries : GetAllBooksCount(q)
  \/ \E r \in Pending : GetAllBooksFind(r)
  \/ \E g \in GenreArgs, q \in GenreQueries : GetBooksByGenreCount(g, q)
  \/ \E r \in Pending : GetBooksByGenreFind(r)
  \/ \E a \in AuthorArgs, q \in GenreQueries : GetBooksByAuthorCount(a, q)
  \/ \E r \in Pending : GetBooksByAuthorFind(r)

ListSpec == Init /\ [][ListNext]_vars

\* the read routes, over a store filled by createBook and deleteBook
SearchNext ==
  \/ \E data \in ListCreateInputs : CreateBookFind(data)
  \/ \E r \in Pending : CreateBookSave(r)
  \/ \E id \in Ids : DeleteBook(id)
  \/ \E q \in GetBooksQueries : GetBooks(q)
  \/ \E q \in SearchQueries : GetSearch(q)
  \/ \E r \in Pending : GetAllBooksFind(r)

SearchSpec == Init /\ [][SearchNext]_vars

\* the tokens of the last response
IssuedTokens ==
  IF Has(ret, "data") /\ Has(ret.data, "tokens")
  THEN {ret.data.tokens.accessToken, ret.data.tokens.refreshToken}
  ELSE IF Has(ret, "data") /\ Has(ret.data, "accessToken")
  THEN {ret.data.accessToken, ret.data.refreshToken}
  ELSE {}

\* the tokens a request may carry
PresentedTokens == TokenInputs \cup IssuedTokens

\* the handlers that verify a token, over users that are deactivated, removed
\* or given another role after their tokens were issued
TokenNext ==
  \/ \E body \in TokenLogins : Login(body)
  \/ \E t \in PresentedTokens : GetProfile(t)
  \/ \E t \in PresentedTokens : GetAllUsers(t)
  \/ \E t \in PresentedTokens : RefreshToken([refreshToken |-> t])
  \/ \E uid \in {AdminId, UserId} : StoreDeactivate(uid)
  \/ \E uid \in {UserId} : StoreRemove(uid)
  \/ \E uid \in {AdminId, UserId}, role \in Roles : StoreSetRole(uid, role)

TokenSpec == Init /\ [][TokenNext]_vars

\* register and updateProfile, whose checks and writes interleave
RegisterNext ==
  \/ \E body \in RegisterInputs : RegisterFind(body)
  \/ \E r \in Pending : RegisterCreate(r)
  \/ \E t \in ProfileTokens \cup IssuedTokens, body \in ProfileInputs :
       UpdateProfileFind(t, body)
  \/ \E r \in Pending : UpdateProfileApply(r)

RegisterSpec == Init /\ [][RegisterNext]_vars

\* every handler of AuthController
AuthNext ==
  \/ \E body \in AuthRegisters : RegisterFind(body)
  \/ \E r \in Pending : RegisterCreate(r)
  \/ \E body \in AuthLogins : Login(body)
  \/ \E t \in AuthTokens \cup IssuedTokens : GetProfile(t)
  \/ \E t \in AuthTokens \cup IssuedTokens, body \in AuthProfiles :
       UpdateProfileFind(t, body)
  \/ \E r \in Pending : UpdateProfileApply(r)
  \/ \E t \in AuthTokens \cup IssuedTokens, body \in AuthPasswords :
       ChangePassword(t, body)
  \/ \E t \in AuthTokens \cup IssuedTokens :
       RefreshToken([refreshToken |-> t])
  \/ \E t \in AuthTokens \cup IssuedTokens : GetAllUsers(t)

AuthSpec == Init /\ [][AuthNext]_vars

\* the logins that hand out tokens, before and after a change of password
HoldLogins ==
  { [email |-> Email("u"), password |-> Secret],
    [email |-> Email("u"), password |-> Passwd],
    [email |-> Email("r"), password |-> Secret] }

HoldPasswords ==
  { [currentPassword |-> Secret, newPassword |-> Passwd],
    [currentPassword |-> Passwd, newPassword |-> Secret] }

\* the tokens the server hands to its users: a token carries no state of
\* the store but the id, username, email and role it was signed with, so a
\* token issued earlier is the one issued now
HeldTokens ==
  UNION {{generateTokenPair(i, users[i]).accessToken,
          generateTokenPair(i, users[i]).refreshToken} : i \in DOMAIN users}

\* the handlers that issue tokens, changePassword called with a token just
\* issued, and a profile request with any token handed out
HoldNext ==
  \/ \E body \in AuthRegisters : RegisterFind(body)
  \/ \E r \in Pending : RegisterCreate(r)
  \/ \E body \in HoldLogins : Login(body)
  \/ \E t \in IssuedTokens, body \in HoldPasswords : ChangePassword(t, body)
  \/ \E t \in HeldTokens : RefreshToken([refreshToken |-> t])
  \/ \E t \in HeldTokens : GetProfile(t)

HoldSpec == Init /\ [][HoldNext]_vars

\* login and changePassword, over users an operator may deactivate
LoginNext ==
  \/ \E body \in LoginInputs : Login(body)
  \/ \E t \in PasswordTokens, body \in PasswordInputs : ChangePassword(t, body)
  \/ \E uid \in {UserId} : StoreDeactivate(uid)

LoginSpec == Init /\ [][LoginNext]_vars

\* the operations of BookService, called directly
Next ==
  \/ \E d \in CreateInputs : CreateBookFind(d)
  \/ \E r \in Pending : CreateBookSave(r)
  \/ \E id \in Ids, d \in UpdateInputs : UpdateBookFind(id, d)
  \/ \E r \in Pending : UpdateBookApply(r)
  \/ \E id \in Ids : DeleteBook(id)
  \/ \E id \in Ids : PermanentlyDeleteBook(id)
  \/ \E id \in Ids, q \in Quantities : UpdateStockFind(id, q)
  \/ \E r \in Pending : UpdateStockSave(r)

Spec == Init /\ [][Next]_vars

\* the write routes of the HTTP interface, and the service calls they started
HttpNext ==
  \/ \E t \in Tokens, b \in HttpCreateBodies : PostBooks(t, b)
  \/ \E t \in Tokens, id \in Ids, b \in HttpUpdateBodies : PutBook(t, id, b)
  \/ \E t \in Tokens, id \in Ids, b \in HttpUpdateBodies : PatchBook(t, id, b)
  \/ \E t \in Tokens, id \in Ids, q \in HttpQuantities :
       PatchStock(t, id, [quantity |-> q])
  \/ \E t \in Tokens, id \in Ids : DeleteBookRoute(t, id)
  \/ \E t \in Tokens, id \in Ids : DeletePermanentRoute(t, id)
  \/ \E r \in Pending : CreateBookSave(r)
  \/ \E r \in Pending : UpdateBookApply(r)
  \/ \E r \in Pending : UpdateStockSave(r)

HttpSpec == Init /\ [][HttpNext]_vars

\* createBook and concurrent updateStock calls only: the stock of a book is
\* written by nothing but its creation and its stock adjustments
StockNext ==
  \/ \E d \in CreateInputs : CreateBookFind(d)
  \/ \E r \in Pending : CreateBookSave(r)
  \/ \E id \in Ids, q \in Quantities : UpdateStockFind(id, q)
  \/ \E r \in Pending : UpdateStockSave(r)

StockSpec == Init /\ [][StockNext]_vars

\* the books and payloads the isbn checks of updateBook are exercised on
IsbnCreateInputs == { WorkA(IsbnA), WorkB(IsbnBh) }

IsbnUpdateInputs ==
  { [isbn |-> IsbnA], [isbn |-> IsbnAh], [price |-> -1], [stock |-> -1],
    [price |-> 1] }

\* the isbn strings looked up
IsbnLookups == {IsbnA, IsbnAh, IsbnB}

\* getBookByIsbn on a store
getBookByIsbn(store, isbn) ==
  LET cleanIsbn == StripIsbn(isbn)
      found == {i \in DOMAIN store : store[i].isbn = cleanIsbn}
  IN  IF found = {} THEN [status |-> 404, id |-> NoId, book |-> <<>>]
      ELSE LET i == CHOOSE k \in found : \A j \in found : k <= j
           IN  [status |-> 200, id |-> i, book |-> store[i]]

\* GET /api/books/isbn/:isbn
GetBookByIsbn(isbn) ==
  /\ \E out \in {getBookByIsbn(books, isbn)} :
       /\ last' = Resp("getBookByIsbn", out.status, "find")
       /\ ret' = [fn |-> "getBookByIsbn", value |-> out]
  /\ call' = [fn |-> "getBookByIsbn", isbn |-> isbn]
  /\ Accept
  /\ UNCHANGED <<books, nextId, inflight, users>>

\* createBook, updateBook and the lookup by isbn
UpdateNext ==
  \/ \E data \in IsbnCreateInputs : CreateBookFind(data)
  \/ \E r \in Pending : CreateBookSave(r)
  \/ \E id \in Ids, data \in IsbnUpdateInputs : UpdateBookFind(id, data)
  \/ \E r \in Pending : UpdateBookApply(r)
  \/ \E isbn \in IsbnLookups : GetBookByIsbn(isbn)

UpdateSpec == Init /\ [][UpdateNext]_vars

\* the argument of getAllBooks in getBookCount: { limit: 1 }
CountParams == [limit |-> Num(1)]

\* getBookCount up to the end of getAllBooks' countDocuments
GetBookCountCount ==
  ListCount("getBookCount", <<>>, CountParams, AllBooksQuery(CountParams))

\* getBookCount from there to its response: total and active are both the
\* totalItems of the pagination
GetBookCountFind(r) ==
  /\ r \in Pending /\ r.op = "getBookCount"
  /\ inflight' = Resume(r)
  /\ LET pagination == calculatePagination(Get(r.params, "page"),
                                           Get(r.params, "limit"), r.total)
     IN  ret' = [fn |-> "getBookCount",
                 value |-> [total |-> pagination.totalItems,
                            active |-> pagination.totalItems]]
  /\ call' = [fn |-> "getBookCount", arg |-> r.arg, query |-> r.params]
  /\ last' = Resp("getBookCount", 200, "find")
  /\ UNCHANGED <<books, nextId, nreq, users>>

CountUpdateInputs == { [status |-> Inactive], [status |-> Active] }

\* GET /api/books/count over a store that the four writes change
CountNext ==
  \/ \E data \in ListCreateInputs : CreateBookFind(data)
  \/ \E r \in Pending : CreateBookSave(r)
  \/ \E id \in Ids, data \in CountUpdateInputs : UpdateBookFind(id, data)
  \/ \E id \in Ids : DeleteBook(id)
  \/ \E id \in Ids : PermanentlyDeleteBook(id)
  \/ GetBookCountCount
  \/ \E r \in Pending : GetBookCountFind(r)

CountSpec == Init /\ [][CountNext]_vars

\* updateBook(id, {status: 'active'}) on a soft-deleted book
Reactivate(id) ==
  /\ id \in DOMAIN books
  /\ books[id].status = Discontinued
  /\ UpdateBookFind(id, [status |-> Active])

\* a list without any parameter
NoParams == <<>>

\* soft delete, reactivation, stock adjustments and the list without filter
StatusNext ==
  \/ \E data \in ListCreateInputs : CreateBookFind(data)
  \/ \E r \in Pending : CreateBookSave(r)
  \/ \E id \in Ids : DeleteBook(id)
  \/ \E id \in Ids : Reactivate(id)
  \/ \E id \in Ids, q \in Quantities : UpdateStockFind(id, q)
  \/ \E r \in Pending : UpdateStockSave(r)
  \/ GetAllBooksCount(NoParams)
  \/ \E r \in Pending : GetAllBooksFind(r)

StatusSpec == Init /\ [][StatusNext]_vars

(***************************************************************************)
(* Reads of single records.                                                *)
(***************************************************************************)
\* getBookById
getBookById(store, id) ==
  IF id \in DOMAIN store THEN [status |-> 200, book |-> store[id]]
  ELSE [status |-> 404, book |-> <<>>]

(***************************************************************************)
(* Properties.                                                             *)
(***************************************************************************)

\* C1: no two stored books, whatever their status, hold the same isbn once
\* hyphens and spaces are stripped.
C1_IsbnUniqueNormalized ==
  \A i \in DOMAIN books : \A j \in DOMAIN books :
    i # j => StripIsbn(books[i].isbn) # StripIsbn(books[j].isbn)

\* the identity a token gives: an existing active user whose role is admin
AdminIdentity(token) ==
  /\ token # NoToken
  /\ verifyToken(token) = "ok"
  /\ token.uid \in DOMAIN users
  /\ users[token.uid].isActive
  /\ users[token.uid].role = "admin"

\* a request to one of the six book write routes carrying this token
HttpWrite(token) ==
  \/ \E b \in HttpCreateBodies : PostBooks(token, b)
  \/ \E id \in Ids, b \in HttpUpdateBodies : PutBook(token, id, b)
  \/ \E id \in Ids, b \in HttpUpdateBodies : PatchBook(token, id, b)
  \/ \E id \in Ids, q \in HttpQuantities :
       PatchStock(token, id, [quantity |-> q])
  \/ \E id \in Ids : DeleteBookRoute(token, id)
  \/ \E id \in Ids : DeletePermanentRoute(token, id)

\* C2: a book write request that does not carry the token of an existing
\* active admin is refused with 401 or 403, changes no book and starts no
\* service call.
C2_WritesNeedAdmin ==
  [][\A t \in Tokens :
       (HttpWrite(t) /\ ~AdminIdentity(t)) =>
         /\ last'.status \in {401, 403}
         /\ books' = books
         /\ inflight' = inflight]_vars

\* C3: a createBook that passed the pre-check and then finds the isbn taken
\* at save time (a concurrent request stored it meanwhile) ends with 409
\* and leaves the store as it was; otherwise it ends with 201 and exactly
\* one new record, holding the stripped isbn; it never ends with 500.
C3_CreateRaceConflict ==
  [][\A r \in Pending :
       (CreateBookSave(r) /\ DocValid(r.data)) =>
         LET clean == StripIsbn(r.data.isbn)
         IN  IF \E i \in DOMAIN books : books[i].isbn = clean
             THEN /\ last' = Resp("createBook", 409, "save")
                  /\ books' = books
             ELSE /\ last' = Resp("createBook", 201, "save")
                  /\ DOMAIN books' = DOMAIN books \cup {nextId}
                  /\ nextId \notin DOMAIN books
                  /\ books'[nextId].isbn = clean
                  /\ \A i \in DOMAIN books : books'[i] = books[i]]_vars

\* two requests only, both createBook: the second lost the race at save
C3_Witness ==
  /\ nreq = 2
  /\ last = Resp("createBook", 409, "save")
  /\ Cardinality(DOMAIN books) = 1

\* C4: every successful updateStock moves the stored stock by exactly its
\* delta at the moment it is written, so that the final stock is the initial
\* stock plus the deltas of the calls that returned success.
C4_StockAdjustmentsAdd ==
  [][\A r \in Pending :
       (UpdateStockSave(r) /\ last'.status = 200) =>
         books'[r.id].stock = books[r.id].stock + r.quantity]_vars

\* C5: the stock of every stored book is at least 0.
C5_StockNonNegative == \A i \in DOMAIN books : books[i].stock >= 0

\* a decrement was refused and a negative stock was rejected by the schema
C5_Witness ==
  /\ last.op = "updateBook" /\ last.status = 422
  /\ \E i \in DOMAIN books : books[i].stock = MaxStock

\* C6: updateStock on an existing book with stock + delta < 0 ends with 400
\* and changes nothing; otherwise the value it goes on to store is exactly
\* stock + delta, and its save sets the stock to that value and touches no
\* other field.
C6_StockDeltaExact ==
  [][/\ \A id \in DOMAIN books : \A q \in Quantities :
          UpdateStockFind(id, q) =>
            IF books[id].stock + q < 0
            THEN /\ last' = Resp("updateStock", 400, "find")
                 /\ books' = books
                 /\ inflight' = inflight
            ELSE /\ books' = books
                 /\ inflight' = Await([op |-> "updateStock", id |-> id,
                                       quantity |-> q,
                                       stock |-> books[id].stock + q])
     /\ \A r \in Pending :
          (UpdateStockSave(r) /\ r.id \in DOMAIN books) =>
            /\ last' = Resp("updateStock", 200, "save")
            /\ books' = [books EXCEPT ![r.id].stock = r.stock]]_vars

\* a decrement below zero was refused while the book kept a positive stock
C6_Witness ==
  /\ last = Resp("updateStock", 400, "find")
  /\ \E i \in DOMAIN books : books[i].stock > 0

BusinessFields == {"title", "author", "genre", "publishedYear", "isbn",
                   "description", "price", "stock"}

\* C7: deleteBook on a stored book sets its status to discontinued, keeps
\* every business field and every other book, and the record is still
\* returned by getBookById; on an absent id it ends with 404 and changes
\* nothing.
C7_SoftDeleteFrame ==
  [][\A id \in Ids :
       DeleteBook(id) =>
         IF id \in DOMAIN books
         THEN /\ last' = Resp("deleteBook", 200, "update")
              /\ DOMAIN books' = DOMAIN books
              /\ books'[id].status = Discontinued
              /\ \A f \in BusinessFields : books'[id][f] = books[id][f]
              /\ \A i \in DOMAIN books \ {id} : books'[i] = books[i]
              /\ getBookById(books', id).status = 200
              /\ getBookById(books', id).book = books'[id]
         ELSE /\ last' = Resp("deleteBook", 404, "update")
              /\ books' = books]_vars

\* a book with stock was soft-deleted
C7_Witness ==
  /\ last = Resp("deleteBook", 200, "update")
  /\ \E i \in DOMAIN books :
       books[i].status = Discontinued /\ books[i].stock > 0

\* an id that was assigned and whose record was permanently deleted
Gone(id) == id < nextId /\ id \notin DOMAIN books

\* C8 as stated: once a record is permanently deleted it never exists
\* again, getBookById fails with 404, and every operation that is started
\* on its id afterwards and answers at once answers 404.
C8_GoneAlwaysNotFound ==
  [][\A id \in Ids :
       Gone(id) =>
         /\ id \notin DOMAIN books'
         /\ getBookById(books, id).status = 404
         /\ DeleteBook(id) => last'.status = 404
         /\ PermanentlyDeleteBook(id) => last'.status = 404
         /\ \A q \in Quantities : UpdateStockFind(id, q) => last'.status = 404
         /\ \A d \in UpdateInputs :
              UpdateBookFind(id, d) =>
                (inflight' # inflight \/ last'.status = 404)]_vars

\* C8 as amended: the same, except that an update whose payload is rejected
\* first answers 422 (schema violation) or 409 (isbn held by another book)
\* instead of 404.
C8_GoneStaysGone ==
  [][\A id \in Ids :
       Gone(id) =>
         /\ id \notin DOMAIN books'
         /\ getBookById(books, id).status = 404
         /\ DeleteBook(id) => last'.status = 404
         /\ PermanentlyDeleteBook(id) => last'.status = 404
         /\ \A q \in Quantities : UpdateStockFind(id, q) => last'.status = 404
         /\ \A d \in UpdateInputs :
              UpdateBookFind(id, d) =>
                /\ books' = books
                /\ \/ inflight' # inflight
                   \/ last'.status =
                        IF Has(d, "isbn")
                        THEN 409
                        ELSE IF PathsValid(d) THEN 404 ELSE 422
         /\ \A r \in Pending :
              (UpdateBookApply(r) /\ r.id = id) =>
                /\ books' = books
                /\ last'.status = IF PathsValid(r.data) THEN 404 ELSE 422]_vars

\* a stock adjustment on a permanently deleted book was answered 404
C8_Witness ==
  /\ last = Resp("updateStock", 404, "find")
  /\ \E id \in Ids : Gone(id)

\* the call was made without a status filter
NoStatusFilter(r) ==
  r.op \in {"getBooksByGenre", "getBooksByAuthor"}
    \/ (r.op = "getAllBooks" /\ "status" \notin DOMAIN r.params)

ListOps == {"getAllBooks", "getBooksByGenre", "getBooksByAuthor"}

\* C9: List called with no status filter, GetByGenre and GetByAuthor count
\* only active books in totalItems and return only active books, whatever
\* the other filter, search, sort and pagination parameters.
C9_ListsOnlyActive ==
  [][/\ \A r \in BagToSet(inflight') :
          (r.op \in ListOps /\ NoStatusFilter(r) /\ inflight' = Await(r))
            => /\ r.total = Cardinality({i \in Matching(books, r.query) :
                                           books[i].status = Active})
               /\ r.total <= Cardinality({i \in DOMAIN books :
                                            books[i].status = Active})
     /\ \A r \in Pending :
          (r.op \in ListOps /\ NoStatusFilter(r) /\ inflight' = Resume(r))
            => /\ ret'.fn = r.op
               /\ ret'.value.pagination.totalItems = r.total
               /\ \A k \in 1..Len(ret'.value.books) :
                    /\ ret'.value.books[k].doc.status = Active
                    /\ ret'.value.books[k].id \in DOMAIN books
                    /\ books[ret'.value.books[k].id].status = Active]_vars

\* a list without status filter has answered with a book while the store
\* holds a book that is not active
C9_Witness ==
  /\ last.op \in ListOps /\ last.status = 200
  /\ ret.fn = last.op
  /\ "status" \notin DOMAIN call.query
  /\ Len(ret.value.books) >= 1
  /\ ret.value.pagination.totalItems < Cardinality(DOMAIN books)
  /\ \E i \in DOMAIN books : books[i].status # Active

RangeFields == {"publishedYear", "price"}

\* the numeric value a query parameter stands for
Numeric(field, x) == IF field = "price" THEN parseFloat(x) ELSE parseInt(x)

\* this filter carries value x as its bound op
HasBound(filters, field, op, x) ==
  /\ field \in DOMAIN filters
  /\ filters[field].t = "range"
  /\ op \in DOMAIN filters[field].ops
  /\ filters[field].ops[op] = Numeric(field, x)

\* C10 as stated: for a range-capable field f, a query with f_gte (f_lte)
\* gives a filter on f with that numeric lower (upper) bound, with or
\* without the bare key f; with the bare key only, an exact numeric match;
\* with none of the three, no filter on f.
C10_RangeFilters ==
  call.fn = "parseFilters" =>
    \A f \in RangeFields :
      LET q == call.query
          filters == ret.value
          gte == f \o "_gte"
          lte == f \o "_lte"
      IN  /\ gte \in DOMAIN q => HasBound(filters, f, "$gte", q[gte])
          /\ lte \in DOMAIN q => HasBound(filters, f, "$lte", q[lte])
          /\ (f \in DOMAIN q /\ gte \notin DOMAIN q /\ lte \notin DOMAIN q)
               => (f \in DOMAIN filters /\ filters[f] = Numeric(f, q[f]))
          /\ (f \notin DOMAIN q /\ gte \notin DOMAIN q /\ lte \notin DOMAIN q)
               => f \notin DOMAIN filters

\* the query passes bookSchemas.getBooks
ValidQuery(query) ==
  \A k \in (DOMAIN query) \cap GetBooksKeys : JoiGetBooksRule(k, query[k])

\* the call of getAllBooks that answers a search for q
SearchCall(query) ==
  LET rest == [k \in ((DOMAIN query) \cap GetBooksKeys) \ {"search"} |->
                 JoiGetBooksValue(k, query[k])]
      params == Put(rest, "search", query["q"])
      filters == AllBooksQuery(params)
  IN  [op |-> "getAllBooks", arg |-> <<>>, params |-> params,
       query |-> filters, total |-> countDocuments(books, filters)]

\* C11: GET /books/search with a non-empty q (and otherwise valid
\* parameters) goes on to the List computed with search = q, which answers
\* 200; the handler answers 400 only when q is absent from the request.
C11_SearchMapsQ ==
  [][\A query \in SearchQueries :
       GetSearch(query) =>
         /\ ("q" \in DOMAIN query /\ Truthy(query["q"]) /\ ValidQuery(query))
              => inflight' = Await(SearchCall(query))
         /\ last' = Resp("searchBooks", 400, "handler")
              => "q" \notin DOMAIN query]_vars

\* the user holding this email, NoUser when there is none
UserOfEmail(store, email) ==
  IF \E i \in DOMAIN store : store[i].email = email
  THEN CHOOSE i \in DOMAIN store : store[i].email = email
  ELSE NoUser

\* C12: a login with an existing email and a wrong password is answered with
\* the status and the message that a login with an email nobody holds is
\* answered with, 401 in both cases.
C12_LoginFailuresAlike ==
  [][\A body \in LoginInputs :
       ( /\ Login(body)
         /\ UserOfEmail(users, body.email) # NoUser
         /\ users[UserOfEmail(users, body.email)].password
              # Hash(body.password) ) =>
         \A other \in LoginInputs :
           UserOfEmail(users, other.email) = NoUser =>
             /\ ret'.status = 401
             /\ ret'.status = login(users, nreq + 1, other).status
             /\ ret'.message = login(users, nreq + 1, other).message]_vars

\* C13: a login whose email is that of an existing active user and whose
\* password is the one stored (hashed) for that user is answered 200 with the
\* identity of that user and a pair of tokens issued to it, and sets the
\* lastLogin of that user, and nothing else, to the date of the request;
\* every other login is answered 401 without data and changes no user.
C13_LoginOutcome ==
  [][\A body \in LoginInputs :
       Login(body) =>
         LET id == UserOfEmail(users, body.email)
         IN  IF /\ id # NoUser
                /\ users[id].isActive
                /\ users[id].password = Hash(body.password)
             THEN /\ ret'.status = 200
                  /\ ret'.data.user.id = id
                  /\ ret'.data.user.email = users[id].email
                  /\ \A k \in {"accessToken", "refreshToken"} :
                       /\ ret'.data.tokens[k].uid = id
                       /\ verifyToken(ret'.data.tokens[k]) = "ok"
                  /\ users' = [users EXCEPT ![id].lastLogin = nreq']
                  /\ users[id].lastLogin # nreq'
             ELSE /\ ret'.status = 401
                  /\ ret'.data = NoData
                  /\ users' = users]_vars

\* a login has succeeded and one has been refused
C13_Witness ==
  /\ last = Resp("login", 200, "handler")
  /\ ret.data.user.id = UserId
  /\ users[UserId].lastLogin = nreq
  /\ users[AdminId].lastLogin = NoDate

\* C19: a password change by an authenticated user whose currentPassword is
\* not the one stored is answered 401 and changes no user; with the stored
\* one it sets the hash of that user, and nothing else, to the hash of
\* newPassword, after which a login of that user with newPassword succeeds
\* and one with the old password, when it differs, is answered 401.
C19_ChangePassword ==
  [][\A t \in PasswordTokens, body \in PasswordInputs :
       ( /\ ChangePassword(t, body)
         /\ authenticate(Request(t, NoId, body)).status = 0 ) =>
         LET id == t.uid
             old == [email |-> users[id].email,
                     password |-> body.currentPassword]
             new == [email |-> users[id].email, password |-> body.newPassword]
         IN  IF users[id].password # Hash(body.currentPassword)
             THEN /\ ret'.status = 401
                  /\ users' = users
             ELSE /\ users' = [users EXCEPT
                                ![id].password = Hash(body.newPassword)]
                  /\ login(users', nreq' + 1, new).status = 200
                  /\ body.newPassword # body.currentPassword =>
                       login(users', nreq' + 1, old).status = 401]_vars

\* after a password change, a login with the new password has succeeded
C19_Witness ==
  /\ last = Resp("login", 200, "handler")
  /\ call.body.password = Passwd
  /\ users[UserId].password = Hash(Passwd)
  /\ ret.data.user.id = UserId

\* a token this server signed, not expired, of a user who exists and is active
TokenOfActiveUser(token) ==
  /\ token # NoToken
  /\ token.sig = "good"
  /\ ~token.expired
  /\ token.uid \in DOMAIN users
  /\ users[token.uid].isActive

\* the step answers a request to the handler op
Answered(op) == nreq' = nreq + 1 /\ last'.op = op

\* C14: a request behind authenticate is given the identity of the user of
\* its token exactly when the token was signed by this server for its issuer
\* and audience, has not expired, and its user exists and is active when the
\* request is made; every other request is answered 401, with "Token has
\* expired" for a token whose only fault is its expiry and with another
\* message for an unexpired token whose signature, issuer or audience fails.
C14_VerifyAndLoadUser ==
  [][Answered("getProfile") =>
       LET t == call'.token
       IN
         /\ TokenOfActiveUser(t) =>
              /\ ret'.status = 200
              /\ ret'.data.id = t.uid
              /\ ret'.data.role = users[t.uid].role
         /\ ~TokenOfActiveUser(t) =>
              /\ ret'.status = 401
              /\ ret'.data = NoData
         /\ (t # NoToken /\ t.sig = "good" /\ t.expired) =>
              ret'.message = "Token has expired"
         /\ (t # NoToken /\ t.sig # "good" /\ ~t.expired) =>
              ret'.message \notin {"Token has expired", "next"}]_vars

\* a token handed out by login is refused once its user is deactivated
C14_Witness ==
  /\ last = Resp("getProfile", 401, "chain")
  /\ Has(call.token, "kind")
  /\ verifyToken(call.token) = "ok"
  /\ call.token.uid \in DOMAIN users
  /\ ~users[call.token.uid].isActive

\* C15: behind authenticate and authorize('admin'), a request with an
\* identity goes on to its handler exactly when the role stored for that
\* user is admin, whatever role its token names, and is answered 403
\* otherwise; authorize answers 401 to a request without identity.
C15_Authorize ==
  [][((Answered("getAllUsers") /\ TokenOfActiveUser(call'.token)) =>
        LET t == call'.token
        IN
          /\ users[t.uid].role = "admin" =>
               last' = Resp("getAllUsers", 200, "handler")
          /\ users[t.uid].role # "admin" =>
               last' = Resp("getAllUsers", 403, "chain"))
     /\ (\A roles \in SUBSET Roles :
          LET req == Request(NoToken, NoId, <<>>)
          IN  /\ authorize(roles, req).status = 401
              /\ \A uid \in DOMAIN users :
                   authorize(roles, [req EXCEPT !.user = uid]).status
                     = IF users[uid].role \in roles THEN 0 ELSE 403)]_vars

\* a token that names the role admin is refused with 403 after its user was
\* given the role user
C15_Witness ==
  /\ last = Resp("getAllUsers", 403, "chain")
  /\ Has(call.token, "role")
  /\ call.token.role = "admin"
  /\ users[call.token.uid].role = "user"

\* C20: a refresh request presenting a token is answered 200 with a pair of
\* tokens issued to the user of the token, naming the role stored for it,
\* exactly when authenticate would let the token through (an access token
\* included): signed by this server, not expired, user existing and active;
\* every other presented token is answered 401 without data; no refresh
\* request changes a user.
C20_RefreshTokens ==
  [][Answered("refreshToken") =>
       LET t == call'.body.refreshToken
       IN
         /\ users' = users
         /\ t # NoToken =>
              /\ TokenOfActiveUser(t)
                   <=> authenticate(Request(t, NoId, <<>>)).status = 0
              /\ TokenOfActiveUser(t) =>
                   /\ ret'.status = 200
                   /\ \A k \in {"accessToken", "refreshToken"} :
                        /\ ret'.data[k].uid = t.uid
                        /\ ret'.data[k].role = users[t.uid].role
                        /\ verifyToken(ret'.data[k]) = "ok"
              /\ ~TokenOfActiveUser(t) =>
                   /\ ret'.status = 401
                   /\ ret'.data = NoData]_vars

\* an access token handed out by login was accepted as a refresh token
C20_Witness ==
  /\ last = Resp("refreshToken", 200, "handler")
  /\ Has(call.body.refreshToken, "kind")
  /\ call.body.refreshToken.kind = "access"

\* no two users of the store hold the same username or, in lower case, the
\* same email: the usernames and the emails are as many as the users
UsersDistinct(store) ==
  /\ Cardinality({store[i].username : i \in DOMAIN store})
       = Cardinality(DOMAIN store)
  /\ Cardinality({LowerOf(store[i].email) : i \in DOMAIN store})
       = Cardinality(DOMAIN store)

\* the step answers a register request
RegisterAnswered ==
  /\ last'.op = "register"
  /\ \/ nreq' = nreq + 1 /\ inflight' = inflight
     \/ nreq' = nreq /\ inflight' # inflight

\* C16: after every step of register and updateProfile no two users hold the
\* same username or, in lower case, the same email; a register request whose
\* username or (in lower case) email a user holds when it is answered is
\* answered 409 and creates no user.
C16_UsersUnique ==
  [][/\ UsersDistinct(users')
     /\ RegisterAnswered =>
          LET body == call'.body
          IN  (\E i \in DOMAIN users :
                 \/ users[i].username = Trim(body.username)
                 \/ users[i].email = LowerOf(Trim(body.email))) =>
                /\ ret'.status = 409
                /\ users' = users]_vars

\* a register request passed the duplicate check and was refused by the
\* unique index, after another request created the user
C16_Witness ==
  /\ last = Resp("register", 409, "create")
  /\ Registered = 1
  /\ UsersDistinct(users)

\* C17: a register request answered 201 has stored the role admin when its
\* body names the role admin and the role user for every other body (role
\* absent included), without the request carrying any token, and the user
\* and the two tokens of the response name the stored role.
C17_RegisterRole ==
  [][(RegisterAnswered /\ ret'.status = 201) =>
       LET body == call'.body
           id == ret'.data.user.id
           role == IF Has(body, "role") /\ body.role = "admin"
                   THEN "admin" ELSE "user"
       IN  /\ id \notin DOMAIN users
           /\ users'[id].role = role
           /\ ret'.data.user.role = role
           /\ ret'.data.tokens.accessToken.role = role
           /\ ret'.data.tokens.refreshToken.role = role
           /\ call'.token = NoToken]_vars

\* a request without token has registered an admin
C17_Witness ==
  /\ last = Resp("register", 201, "create")
  /\ call.token = NoToken
  /\ Has(call.body, "role")
  /\ call.body.role = "admin"
  /\ users[ret.data.user.id].role = "admin"
  /\ ret.data.tokens.accessToken.role = "admin"

\* the handlers of AuthController
AuthOps == {"register", "login", "getProfile", "updateProfile",
            "changePassword", "refreshToken", "getAllUsers"}

\* the path password is not among the paths of the record
NoPassword(record) == "password" \notin DOMAIN record

\* C18: the response of register, login, getProfile, updateProfile,
\* changePassword, refreshToken and getAllUsers holds no password, plain or
\* hashed: not in its data, not in the user or in any user of its data, and
\* not in the payload of any token of its data.
C18_NoPasswordInResponses ==
  (Has(ret, "data") /\ ret.fn \in AuthOps) =>
    LET data == ret.data
    IN  /\ NoPassword(data)
        /\ Has(data, "user") => NoPassword(data.user)
        /\ Has(data, "tokens") =>
             /\ NoPassword(data.tokens)
             /\ NoPassword(data.tokens.accessToken)
             /\ NoPassword(data.tokens.refreshToken)
        /\ Has(data, "accessToken") =>
             /\ NoPassword(data.accessToken)
             /\ NoPassword(data.refreshToken)
        /\ (ret.fn = "getAllUsers" /\ ret.status = 200) =>
             \A i \in DOMAIN data : NoPassword(data[i])

\* the admin listing has answered with the users, a registered one included,
\* whose documents hold a hashed password
C18_Witness ==
  /\ last = Resp("getAllUsers", 200, "handler")
  /\ Registered = 1
  /\ DOMAIN ret.data = DOMAIN users
  /\ \A i \in DOMAIN users : users[i].password.alg = "bcrypt"

(***************************************************************************)
(* Pagination (utils/helpers.js).                                          *)
(***************************************************************************)
\* the number a page or limit parameter stands for, NaN when it is absent
\* or not numeric
Requested(x) == parseInt(x)

IsNumber(x) == x.t = "number"

\* C21: for every requested limit, itemsPerPage is 100 when the limit is
\* above 100, 10 when the limit is below 1 (zero and every negative
\* integer), non-numeric or absent, and the limit itself otherwise; it is
\* always within 1..100.
C21_ItemsPerPage ==
  call.fn = "calculatePagination" =>
    LET l == Requested(call.limit)
        itemsPerPage == ret.value.itemsPerPage
    IN  /\ itemsPerPage \in 1..MAX_LIMIT
        /\ IsNumber(l) /\ l.n > MAX_LIMIT => itemsPerPage = MAX_LIMIT
        /\ ~IsNumber(l) \/ l.n < 1 => itemsPerPage = DEFAULT_LIMIT
        /\ IsNumber(l) /\ l.n \in 1..MAX_LIMIT => itemsPerPage = l.n

\* C22: currentPage is 1 when page is at most 0, non-numeric or absent, and
\* the parsed page otherwise; totalPages = ceil(totalItems / itemsPerPage);
\* skip = (currentPage - 1) * itemsPerPage; hasNextPage is false exactly
\* when currentPage >= totalPages; hasPreviousPage is true exactly when
\* currentPage > 1.
C22_PageArithmetic ==
  call.fn = "calculatePagination" =>
    LET p == Requested(call.page)
        v == ret.value
    IN  /\ v.currentPage = IF IsNumber(p) /\ p.n > 0 THEN p.n ELSE 1
        /\ v.totalItems = call.totalItems
        /\ (v.totalPages - 1) * v.itemsPerPage < v.totalItems
        /\ v.totalItems <= v.totalPages * v.itemsPerPage
        /\ v.totalItems = 0 => v.totalPages = 0
        /\ v.skip = (v.currentPage - 1) * v.itemsPerPage
        /\ v.hasNextPage = FALSE <=> v.currentPage >= v.totalPages
        /\ v.hasPreviousPage = TRUE <=> v.currentPage > 1

\* a page parsed from a string, beyond the first, short of the last
C22_Witness ==
  /\ call.fn = "calculatePagination"
  /\ call.page = Str(<<"2">>)
  /\ ret.value.currentPage = 2
  /\ ret.value.totalPages > 2
  /\ ret.value.hasNextPage
  /\ ret.value.hasPreviousPage
  /\ ret.value.skip > 0

\* C30: the page is not clamped to the last page: for a numeric page p
\* above max(1, totalPages), currentPage = p, skip = (p - 1) * itemsPerPage
\* is at least totalItems, hasNextPage is false and hasPreviousPage is
\* true, also when totalItems = 0.
C30_PageNotClamped ==
  call.fn = "calculatePagination" =>
    LET p == Requested(call.page)
        v == ret.value
    IN  IsNumber(p) /\ p.n > Max(1, v.totalPages) =>
          /\ v.currentPage = p.n
          /\ v.skip = (p.n - 1) * v.itemsPerPage
          /\ v.skip >= v.totalItems
          /\ ~v.hasNextPage
          /\ v.hasPreviousPage

\* a page beyond the last page of a collection that has items
C30_Witness ==
  /\ call.fn = "calculatePagination"
  /\ call.totalItems > 0
  /\ ret.value.currentPage > ret.value.totalPages
  /\ ret.value.totalPages >= 1
  /\ ret.value.skip >= call.totalItems

(***************************************************************************)
(* Sort parsing (utils/helpers.js).                                        *)
(***************************************************************************)
\* the (field, direction) pair a trimmed token stands for
PairOf(token) ==
  IF token # <<>> /\ Head(token) = "-"
  THEN [field |-> Tail(token), order |-> -1]
  ELSE [field |-> token, order |-> 1]

\* the pairs of the tokens whose bare field name the allow-list admits, in
\* the order of the tokens
RECURSIVE KeptPairs(_, _)
KeptPairs(tokens, allowedFields) ==
  IF tokens = <<>> THEN <<>>
  ELSE LET pair == PairOf(Trim(Head(tokens)))
           rest == KeptPairs(Tail(tokens), allowedFields)
       IN  IF allowedFields = <<>> \/ Includes(allowedFields, pair.field)
           THEN <<pair>> \o rest ELSE rest

\* C23: for every sort string and allow-list, parseSort returns the (field,
\* direction) pairs of exactly the comma-separated, trimmed tokens whose
\* bare field name is in the allow-list (all tokens when the allow-list is
\* empty), in the order written, descending for '-'-prefixed tokens; when
\* the sort string is empty or absent or every token is filtered out it
\* returns the single pair (createdAt, descending).
C23_ParseSort ==
  call.fn = "parseSort" =>
    LET kept == IF Truthy(call.sortString)
                THEN KeptPairs(Split(call.sortString.s), call.allowedFields)
                ELSE <<>>
    IN  ret.value = IF kept = <<>> THEN DefaultSort ELSE kept

(***************************************************************************)
(* updateBook and the isbn (services/bookService.js).                      *)
(***************************************************************************)
\* some book other than id holds this isbn, hyphens and spaces apart
HeldByOther(store, id, isbn) ==
  \E i \in DOMAIN store :
    i # id /\ StripIsbn(store[i].isbn) = StripIsbn(isbn)

\* C24 as stated: updateBook on an id that no stored book has answers 404
\* and leaves the store unchanged, whatever the payload.
C24_AbsentIdNotFound ==
  [][/\ \A id \in Ids : \A d \in IsbnUpdateInputs :
          (UpdateBookFind(id, d) /\ id \notin DOMAIN books) =>
            /\ books' = books
            /\ inflight' # inflight \/ last' = Resp("updateBook", 404, "update")
     /\ \A r \in Pending :
          (UpdateBookApply(r) /\ r.id \notin DOMAIN books) =>
            /\ books' = books
            /\ last' = Resp("updateBook", 404, "update")]_vars

\* the payload breaks a minimum of the schema
Violates(d) ==
  \/ Has(d, "price") /\ d.price < 0
  \/ Has(d, "stock") /\ d.stock < 0

\* some stored book holds exactly this string as its isbn
StoredAs(store, isbn) == \E i \in DOMAIN store : store[i].isbn = isbn

\* C24 as amended: updateBook on an id that no stored book has leaves the
\* store unchanged and answers 404, unless the payload is rejected first:
\* 409 when its isbn, stripped of hyphens and spaces, is the isbn string of
\* a stored book, 422 when it violates a constraint of the schema.
C24_AbsentIdRejected ==
  [][/\ \A id \in Ids : \A d \in IsbnUpdateInputs :
          (UpdateBookFind(id, d) /\ id \notin DOMAIN books) =>
            /\ books' = books
            /\ IF Has(d, "isbn")
               THEN IF StoredAs(books, StripIsbn(d.isbn))
                    THEN last' = Resp("updateBook", 409, "find")
                    ELSE inflight' # inflight
               ELSE last'.status = IF Violates(d) THEN 422 ELSE 404
     /\ \A r \in Pending :
          (UpdateBookApply(r) /\ r.id \notin DOMAIN books) =>
            /\ books' = books
            /\ last' = Resp("updateBook", 404, "update")]_vars

\* an update with an isbn no book holds was answered 404: its id is absent
C24_Witness ==
  /\ last = Resp("updateBook", 404, "update")
  /\ nreq >= 2
  /\ books # <<>>
  /\ inflight = EmptyBag

\* C25: updateBook of a stored book with an isbn in its payload answers 409
\* and changes nothing exactly when another book holds the same isbn,
\* hyphens and spaces apart, so that the book's own isbn in any decoration
\* is no conflict; a payload that violates a constraint of the schema is
\* answered 422 and changes nothing.
C25_UpdateConflict ==
  [][/\ \A id \in DOMAIN books : \A d \in IsbnUpdateInputs :
          UpdateBookFind(id, d) =>
            IF Has(d, "isbn")
            THEN IF HeldByOther(books, id, d.isbn)
                 THEN /\ last' = Resp("updateBook", 409, "find")
                      /\ books' = books /\ inflight' = inflight
                 ELSE books' = books /\ inflight' # inflight
            ELSE Violates(d) =>
                   /\ last' = Resp("updateBook", 422, "update")
                   /\ books' = books
     /\ \A r \in Pending :
          (UpdateBookApply(r) /\ r.id \in DOMAIN books) =>
            /\ last'.status = 409 <=> HeldByOther(books, r.id, r.data.isbn)
            /\ last'.status = 409 => books' = books]_vars

\* C26: the isbn of every stored book is held without hyphens and spaces,
\* also when updateBook set it, and getBookByIsbn called with any decorated
\* variant of a stored isbn returns the book that holds it.
C26_IsbnLookup ==
  \A i \in DOMAIN books :
    /\ books[i].isbn = StripIsbn(books[i].isbn)
    /\ \A v \in IsbnInputs :
         StripIsbn(v) = StripIsbn(books[i].isbn) =>
           getBookByIsbn(books, v) = [status |-> 200, id |-> i, book |-> books[i]]

(***************************************************************************)
(* GET /api/books/count (controllers/bookController.js).                   *)
(***************************************************************************)
\* C27: the total that getBookCount reports is the number of stored books
\* of every status at the moment it counts.
C27_CountIsTotal ==
  [][/\ \A r \in BagToSet(inflight') :
          (r.op = "getBookCount" /\ inflight' = Await(r)) =>
            r.total = Cardinality(DOMAIN books)
     /\ \A r \in Pending :
          (r.op = "getBookCount" /\ inflight' = Resume(r)) =>
            ret'.value.total = r.total]_vars

(***************************************************************************)
(* The status of a soft-deleted book.                                      *)
(***************************************************************************)
\* the ids of the books a list answered with
Listed(value) == {value.books[k].id : k \in 1..Len(value.books)}

\* C29: updateBook(id, {status: 'active'}) on a soft-deleted book succeeds
\* and makes it active, and a list without status filter answers with
\* exactly the active books, the reactivated one included; no other step
\* (deleteBook again, updateStock, a list) changes the status of a
\* discontinued book, and deleteBook on it succeeds and changes nothing.
C29_DiscontinuedNotAbsorbing ==
  [][/\ \A id \in DOMAIN books :
          books[id].status = Discontinued =>
            /\ id \in DOMAIN books'
            /\ Reactivate(id) =>
                 /\ last' = Resp("updateBook", 200, "update")
                 /\ books' = [books EXCEPT ![id].status = Active]
            /\ books'[id].status # Discontinued =>
                 /\ last' = Resp("updateBook", 200, "update")
                 /\ nreq' = nreq + 1
            /\ DeleteBook(id) =>
                 /\ last' = Resp("deleteBook", 200, "update")
                 /\ books' = books
     /\ \A r \in Pending :
          (r.op = "getAllBooks" /\ inflight' = Resume(r)) =>
            /\ last' = Resp("getAllBooks", 200, "find")
            /\ Listed(ret'.value) =
                 {i \in DOMAIN books : books[i].status = Active}]_vars

\* a soft-deleted book was made active again while another one is still
\* discontinued
C29_Witness ==
  /\ last = Resp("updateBook", 200, "update")
  /\ \E i \in DOMAIN books : books[i].status = Active
  /\ \E i \in DOMAIN books : books[i].status = Discontinued

(***************************************************************************)
(* Tokens are stateless (middlewares/auth.js, controllers).                *)
(***************************************************************************)
\* what authenticate answers to a request carrying this token
Verdict(token) == authenticate(Request(token, NoId, <<>>))

\* C28: no changePassword, login or refreshToken changes what authenticate
\* answers for a token handed out, and a profile request carrying a token
\* the server issued is let through as its user while that user exists and
\* is active.
C28_TokensNotRevoked ==
  [][/\ (Answered("changePassword") \/ Answered("login")
           \/ Answered("refreshToken")) =>
          \A t \in HeldTokens : Verdict(t)' = Verdict(t)
     /\ (/\ Answered("getProfile")
         /\ Has(call'.token, "kind")
         /\ call'.token.uid \in DOMAIN users
         /\ users[call'.token.uid].isActive) =>
          (ret'.status = 200 /\ ret'.data.id = call'.token.uid)]_vars

\* a token of a user who has since changed the password and logged in again
\* passed authenticate
C28_Witness ==
  /\ last = Resp("getProfile", 200, "handler")
  /\ Has(call.token, "kind")
  /\ call.token.uid = UserId
  /\ users[UserId].password = Hash(Passwd)
  /\ users[UserId].lastLogin > 1

====
